---- MODULE Spec2Model ----
(***************************************************************************)
(* Configuration resolution, rule selection and the diagnostic pipeline of *)
(* robocop (src/robocop/config.py, src/robocop/linter/runner.py,           *)
(* src/robocop/linter/reports/__init__.py).                                *)
(*                                                                         *)
(* Conventions.                                                            *)
(*   - A Python str that the code inspects character by character (rule    *)
(*     ids, rule names, select/ignore entries) is a sequence of            *)
(*     one-character strings: "0*" is <<"0", "*">>.                        *)
(*   - A field of type "T | None" is an option: None is <<>>, a present    *)
(*     value v is <<v>>.                                                   *)
(*   - A Python object whose identity matters (a Config) is an index into  *)
(*     the heap variable configs.                                          *)
(***************************************************************************)
EXTENDS Integers, Sequences, FiniteSets, TLC

VARIABLES
    \* RobocopLinter (runner.py)
    config,         \* self.config: the Config the linter currently works under
    rules,          \* the registered Rule instances, by model key
    disabled,       \* checker -> checker.disabled
    refreshed,      \* check_for_disabled_rules has run under the current config
    default_enabled,\* rule -> the enabled flag the rule was constructed with
    \* the heap of Config objects
    configs,        \* configs[i]: the fields of the Config object with identity i
    \* the file system
    toml_files,     \* <<directory, file name>> -> the content of that config file
    git_dirs,       \* the directories that hold a .git directory
    hash_order,     \* the order in which this process iterates frozenset CONFIG_NAMES
    \* ConfigManager (config.py)
    config_path,    \* the --config argument, None if absent
    overwrite_config, \* self.overwrite_config: the overlay built from the command line
    ignore_git_dir, \* self.ignore_git_dir
    overridden_config, \* self.overridden_config
    default_config, \* self.default_config (0 before the constructor has run)
    cached_configs, \* self.cached_configs: directory -> Config (0: no entry)
    \* the calls of get_config_for_source_file so far (history, not program state)
    last_lookup,    \* the last call: its source, how it ended, the Config returned, the
                    \* directories it went through, and the Config the call before it
                    \* for a file of the same directory returned (0: no such call)
    results,        \* directory -> the Config the latest call for a file in it returned
    \* the robot files and what the parser, the disablers and the checkers
    \* (external to the pipeline) make of them
    robot_files,    \* file -> [decodable, file_disabled, suppressed, findings]
    \* ConfigManager.paths and resolve_paths (config.py)
    sources,        \* self.sources: the paths given on the command line
    worklist,       \* the sources resolve_paths has still to go through, innermost call
                    \* first: [source, ignore_file_filters]
    paths,          \* self._paths in insertion order: <<file, Config>>
    \* RobocopLinter.run (runner.py)
    pc,             \* where the run stands
    position,       \* the number of entries of paths the loop of run has taken
    issues_no,      \* the local issues_no of run
    reports,        \* self.reports: the names of the enabled reports, in order
    messages,       \* report -> the diagnostics its add_message was called with
    printed,        \* the diagnostics report() printed, with the issue format used
    finalized,      \* the reports whose get_report was called, in order
    status_code,    \* the exit_code attribute of the return_status report
    exit_code,      \* the code of the typer.Exit raised, None before
    scans,          \* the calls of checker.scan_file so far: <<file, checker>> (history)
    \* the persistence store (reports/__init__.py) and the runs that use it
    cache_file,     \* the content of the file .robocop_cache
    cache_before,   \* its content before any run began (history)
    savers,         \* run -> its root, its results, where it stands, what it loaded
    \* the rule registry of RobocopLinter (runner.py)
    registry,       \* self.rules as a dict: rule id or rule name -> Rule instance (0: no key)
    instances,      \* the Rule instances created so far: instances[i] is instance i
    checkers,       \* self.checkers: for each one its checker.rules, name -> instance
    \* the outcome of the program
    raised          \* the exception that ended it, "" while there is none

linterVars == <<config, rules, disabled, refreshed, default_enabled>>

fsVars == <<toml_files, git_dirs, hash_order>>

managerVars == <<config_path, overwrite_config, ignore_git_dir, overridden_config,
                 default_config, cached_configs>>

lookupVars == <<last_lookup, results>>

pathVars == <<sources, worklist, paths>>

runVars == <<robot_files, pc, position, issues_no, reports, messages, printed, finalized,
             status_code, exit_code, scans>>

storeVars == <<cache_file, cache_before, savers>>

registryVars == <<registry, instances, checkers>>

vars == <<config, rules, disabled, refreshed, default_enabled, configs,
          toml_files, git_dirs, hash_order,
          config_path, overwrite_config, ignore_git_dir, overridden_config,
          default_config, cached_configs, last_lookup, results,
          robot_files, sources, worklist, paths, pc, position, issues_no, reports,
          messages, printed, finalized, status_code, exit_code, scans,
          cache_file, cache_before, savers, registry, instances, checkers, raised>>

----------------------------------------------------------------------------
(* Bounds of the model *)

\* the largest number of entries of a select (or ignore) list
MaxEntries == 2

\* the largest number of names of a --reports list
MaxReports == 3

\* the largest exit code the return_status report arrives at
MaxStatusCode == 2

----------------------------------------------------------------------------
(* Python values *)

None == <<>>

Some(v) == <<v>>

Val(o) == o[1]

\* RuleSeverity (robocop.linter.rules): INFO < WARNING < ERROR
INFO == 1

WARNING == 2

ERROR == 3

Severities == {INFO, WARNING, ERROR}

\* the letters RuleSeverity uses as values ("I", "W", "E")
SeverityLetters == {"I", "W", "E"}

Digits == {"0", "1", "2", "3", "4", "5", "6", "7", "8", "9"}

----------------------------------------------------------------------------
(* Rule names and patterns *)

\* re.Pattern.match of a pattern compiled by compile_rule_pattern: a glob
\* where "*" stands for any run of characters and the whole text must match.
RECURSIVE PatternMatch(_, _)
PatternMatch(pattern, text) ==
    IF pattern = <<>> THEN text = <<>>
    ELSE IF Head(pattern) = "*"
         THEN \/ PatternMatch(Tail(pattern), text)
              \/ (text # <<>> /\ PatternMatch(pattern, Tail(text)))
         ELSE /\ text # <<>>
              /\ Head(text) = Head(pattern)
              /\ PatternMatch(Tail(pattern), Tail(text))

\* replace_severity_values: "W0101" names rule "0101"
replace_severity_values(rule) ==
    IF Len(rule) >= 2 /\ rule[1] \in SeverityLetters /\ rule[2] \in Digits
    THEN Tail(rule)
    ELSE rule

HasStar(rule) == \E i \in 1..Len(rule) : rule[i] = "*"

----------------------------------------------------------------------------
(* LinterConfig (config.py) *)

DEFAULT_ISSUE_FORMAT == "default_issue_format"

\* LinterConfig.__post_init__: select and ignore are split into plain names
\* and patterns, the optional severity letter removed
PostInitNames(entries) ==
    IF entries = None THEN {}
    ELSE {replace_severity_values(e) : e \in {x \in Val(entries) : ~HasStar(replace_severity_values(x))}}

PostInitPatterns(entries) ==
    IF entries = None THEN {}
    ELSE {replace_severity_values(e) : e \in {x \in Val(entries) : HasStar(replace_severity_values(x))}}

\* The dataclass constructor followed by __post_init__. Every argument is an
\* option; the derived sets are always sets.
LinterConfig(configure, select, ignore, issue_format, threshold, enabled_reports, persistent, compare) ==
    [configure              |-> configure,
     select                 |-> select,
     ignore                 |-> ignore,
     issue_format           |-> issue_format,
     threshold              |-> threshold,
     include_rules          |-> Some(PostInitNames(select)),
     exclude_rules          |-> Some(PostInitNames(ignore)),
     include_rules_patterns |-> Some(PostInitPatterns(select)),
     exclude_rules_patterns |-> Some(PostInitPatterns(ignore)),
     reports                |-> enabled_reports,
     persistent             |-> persistent,
     compare                |-> compare]

\* LinterConfig() with the dataclass defaults
DefaultLinterConfig ==
    LinterConfig(Some(<<>>), Some({}), Some({}), Some(DEFAULT_ISSUE_FORMAT), Some(INFO),
                 Some(<<>>), Some(FALSE), Some(FALSE))

----------------------------------------------------------------------------
(* FileFiltersOptions and Config (config.py) *)

DEFAULT_INCLUDE == {"*.robot", "*.resource"}

DEFAULT_EXCLUDE == {".direnv", ".eggs", ".git", ".svn", ".hg", ".nox", ".tox", ".venv", "venv", "dist"}

FileFiltersOptions(include, extend_include, exclude, extend_exclude) ==
    [include        |-> include,
     extend_include |-> extend_include,
     exclude        |-> exclude,
     extend_exclude |-> extend_exclude]

DefaultFileFilters == FileFiltersOptions(Some(DEFAULT_INCLUDE), None, Some(DEFAULT_EXCLUDE), None)

Config(source_list, file_filters, linter, language, exit_zero, config_source) ==
    [sources       |-> source_list,
     file_filters  |-> file_filters,
     linter        |-> linter,
     language      |-> language,
     exit_zero     |-> exit_zero,
     config_source |-> config_source]

\* Config() with the dataclass defaults
DefaultConfig ==
    Config(Some(<<".">>), DefaultFileFilters, DefaultLinterConfig, Some(<<>>), Some(FALSE),
           <<"default configuration">>)

----------------------------------------------------------------------------
(* Rules and checkers registered by RobocopLinter.__init__ (runner.py) *)

RuleKeys == {"DUP01", "DUP02", "LEN01"}

Checkers == {"DuplicationsChecker", "LengthChecker"}

\* checker.rules
CheckerRules(checker) ==
    IF checker = "DuplicationsChecker" THEN {"DUP01", "DUP02"} ELSE {"LEN01"}

RuleId(r) ==
    CASE r = "DUP01" -> <<"0", "1">>
      [] r = "DUP02" -> <<"0", "2">>
      [] OTHER       -> <<"1", "1">>

RuleName(r) ==
    CASE r = "DUP01" -> <<"d", "u", "p">>
      [] r = "DUP02" -> <<"d", "k", "w">>
      [] OTHER       -> <<"l", "e", "n">>

\* A Rule instance: identity and version gate are static, severity, enabled
\* and the parameters (here: whether severity_threshold is set) are runtime
\* state.
Rule(r, deprecated, enabled_in_version, severity, enabled, severity_threshold) ==
    [rule_id            |-> RuleId(r),
     name               |-> RuleName(r),
     deprecated         |-> deprecated,
     enabled_in_version |-> enabled_in_version,
     severity           |-> severity,
     enabled            |-> enabled,
     severity_threshold |-> severity_threshold]

\* configure directives "<rule or report>.<param>=<value>", character by
\* character; the parameter "s" stands for severity
ConfigureDupSeverity == <<"0", "1", ".", "s", "=", "E">>

ConfigureLenSeverity == <<"1", "1", ".", "s", "=", "I">>

\* a directive that names no rule and no report
ConfigureUnknownTarget == <<"9", "9", ".", "s", "=", "E">>

\* a directive without the "."
ConfigureMalformed == <<"0", "1", "=", "E">>

----------------------------------------------------------------------------
(* RuleMatcher (config.py) *)

\* bool(x) of an optional set
TruthySet(o) == o # None /\ Val(o) # {}

MatchesAny(patterns, rule) ==
    \E pattern \in patterns :
        PatternMatch(pattern, rule.rule_id) \/ PatternMatch(pattern, rule.name)

is_rule_disabled_no_threshold(rule, linter) ==
    IF rule.deprecated \/ ~rule.enabled_in_version THEN TRUE
    ELSE IF rule.rule_id \in Val(linter.exclude_rules) \/ rule.name \in Val(linter.exclude_rules)
         THEN TRUE
    ELSE MatchesAny(Val(linter.exclude_rules_patterns), rule)

is_rule_disabled_flipped(rule, linter) ==
    IF rule.deprecated \/ ~rule.enabled_in_version THEN TRUE
    ELSE IF rule.severity > Val(linter.threshold) /\ ~rule.severity_threshold THEN TRUE
    ELSE IF rule.rule_id \in Val(linter.exclude_rules) \/ rule.name \in Val(linter.exclude_rules)
         THEN TRUE
    ELSE MatchesAny(Val(linter.exclude_rules_patterns), rule)

is_rule_disabled_no_deprecation(rule, linter) ==
    IF rule.severity < Val(linter.threshold) /\ ~rule.severity_threshold THEN TRUE
    ELSE IF rule.rule_id \in Val(linter.exclude_rules) \/ rule.name \in Val(linter.exclude_rules)
         THEN TRUE
    ELSE MatchesAny(Val(linter.exclude_rules_patterns), rule)

is_rule_disabled(rule, linter) ==
    IF rule.deprecated \/ ~rule.enabled_in_version THEN TRUE
    ELSE IF rule.severity < Val(linter.threshold) /\ ~rule.severity_threshold THEN TRUE
    ELSE IF rule.rule_id \in Val(linter.exclude_rules) \/ rule.name \in Val(linter.exclude_rules)
         THEN TRUE
    ELSE MatchesAny(Val(linter.exclude_rules_patterns), rule)

is_rule_enabled_include_first(rule, linter) ==
    IF TruthySet(linter.include_rules) \/ TruthySet(linter.include_rules_patterns)
    THEN IF rule.rule_id \in Val(linter.include_rules) \/ rule.name \in Val(linter.include_rules)
         THEN TRUE
         ELSE MatchesAny(Val(linter.include_rules_patterns), rule)
    ELSE IF is_rule_disabled(rule, linter) THEN FALSE
    ELSE rule.enabled

is_rule_enabled_ignores_include(rule, linter) ==
    IF is_rule_disabled(rule, linter) THEN FALSE
    ELSE rule.enabled

is_rule_enabled_negating_flag(rule, linter) ==
    IF is_rule_disabled(rule, linter) THEN FALSE
    ELSE IF TruthySet(linter.include_rules) \/ TruthySet(linter.include_rules_patterns)
         THEN IF rule.rule_id \in Val(linter.include_rules) \/ rule.name \in Val(linter.include_rules)
              THEN TRUE
              ELSE MatchesAny(Val(linter.include_rules_patterns), rule)
    ELSE ~rule.enabled

is_rule_enabled(rule, linter) ==
    IF is_rule_disabled(rule, linter) THEN FALSE
    ELSE IF TruthySet(linter.include_rules) \/ TruthySet(linter.include_rules_patterns)
         THEN IF rule.rule_id \in Val(linter.include_rules) \/ rule.name \in Val(linter.include_rules)
              THEN TRUE
              ELSE MatchesAny(Val(linter.include_rules_patterns), rule)
    ELSE rule.enabled

----------------------------------------------------------------------------
(* RobocopLinter: rule enablement refresh (runner.py) *)

RefreshedRules_flags_untouched(rs, linter) == rs

\* any_rule_enabled assigns rule.enabled for every rule of every checker
RefreshedRules(rs, linter) ==
    [r \in RuleKeys |-> [rs[r] EXCEPT !.enabled = is_rule_enabled(rs[r], linter)]]

\* check_for_disabled_rules: a checker none of whose rules is enabled is
\* marked disabled; no branch clears the mark
RefreshedCheckers(rs, dis) ==
    [c \in Checkers |-> IF ~\E r \in CheckerRules(c) : rs[r].enabled THEN TRUE ELSE dis[c]]

check_for_disabled_rules ==
    /\ rules' = RefreshedRules(rules, configs[config].linter)
    /\ disabled' = RefreshedCheckers(rules', disabled)
    /\ refreshed' = TRUE

----------------------------------------------------------------------------
(* The file system: directories and configuration files *)

\* The directories of the project: /a and /b are siblings below the file
\* system root, /a/s lies below /a. Parent(d) is the directory that holds d.
ROOT == "/"

Dirs == {"/", "/a", "/b", "/a/s"}

Parent(d) ==
    CASE d = "/a/s" -> "/a"
      [] OTHER      -> "/"

\* the directory that holds a --config file given on the command line
ELSEWHERE == "/etc"

ROBOTIDY_TOML == "robotidy.toml"

PYPROJECT_TOML == "pyproject.toml"

CONFIG_NAMES == {ROBOTIDY_TOML, PYPROJECT_TOML}

\* The keys of a parsed configuration file that the model tells apart. A
\* key that is absent is None. configure and ignore stand below [lint].
\* unknown holds the keys of the file that name no field of Config (at the
\* top level) or of LinterConfig (below [lint], written "lint.<key>").
Toml(configure, ignore, include, exit_zero) ==
    [configure |-> configure, ignore |-> ignore, include |-> include, exit_zero |-> exit_zero,
     unknown |-> {}]

TomlWith(keys, unknown) == [keys EXCEPT !.unknown = unknown]

EmptyToml == Toml(None, None, None, None)

\* A file: absent, not parseable as TOML, or a TOML document whose keys
\* stand either at the top level or below [tool.robocop]
File(kind, tool_table, keys) == [kind |-> kind, tool_table |-> tool_table, keys |-> keys]

AbsentFile == File("absent", FALSE, EmptyToml)

MalformedFile == File("malformed", FALSE, EmptyToml)

\* Path.is_file
is_file(path) == toml_files[path].kind # "absent"

\* files.read_toml_config: <<"raise">> for load_toml_file's FileError, else
\* <<"ok", None>> or <<"ok", Some(keys)>>
read_toml_config(path) ==
    LET file == toml_files[path] IN
    IF file.kind = "malformed" THEN <<"raise">>
    ELSE IF path[2] = PYPROJECT_TOML \/ file.tool_table
         THEN IF ~file.tool_table \/ file.keys = EmptyToml
              THEN <<"ok", None>>
              ELSE <<"ok", Some(file.keys)>>
    ELSE <<"ok", Some(file.keys)>>

----------------------------------------------------------------------------
(* Config.from_toml and Config.overwrite_from_config (config.py) *)

\* LinterConfig.from_toml: only configure is taken from the [lint] table
LinterConfig_from_toml(keys) ==
    LET configure == IF keys.configure = None THEN Some(<<>>) ELSE keys.configure IN
    [DefaultLinterConfig EXCEPT !.configure = configure]

\* Config.from_toml: the linter table, the file filter keys and the path
Config_from_toml(keys, path) ==
    [DefaultConfig EXCEPT
        !.config_source = path,
        !.linter = LinterConfig_from_toml(keys),
        !.file_filters = [DefaultFileFilters EXCEPT
                             !.include = IF keys.include = None THEN @ ELSE keys.include]]

\* bool(value) of an optional bool, list, and of a value that is true
\* whenever it is present (an enum member, a non-empty string)
TruthyBool(o) == o # None /\ Val(o)

TruthySeq(o) == o # None /\ Val(o) # <<>>

TruthyPresent(o) == o # None

\* FileFiltersOptions.overwrite: every field of other that is not None
FileFilters_overwrite(self, other) ==
    [include        |-> IF other.include # None THEN other.include ELSE self.include,
     extend_include |-> IF other.extend_include # None THEN other.extend_include
                        ELSE self.extend_include,
     exclude        |-> IF other.exclude # None THEN other.exclude ELSE self.exclude,
     extend_exclude |-> IF other.extend_exclude # None THEN other.extend_exclude
                        ELSE self.extend_exclude]

\* the loop over dataclasses.fields(overwrite_config.linter): "if value:"
Linter_overwrite(self, other) ==
    [configure              |-> IF TruthySeq(other.configure) THEN other.configure
                                ELSE self.configure,
     select                 |-> IF TruthySet(other.select) THEN other.select ELSE self.select,
     ignore                 |-> IF TruthySet(other.ignore) THEN other.ignore ELSE self.ignore,
     issue_format           |-> IF TruthyPresent(other.issue_format) THEN other.issue_format
                                ELSE self.issue_format,
     threshold              |-> IF TruthyPresent(other.threshold) THEN other.threshold
                                ELSE self.threshold,
     include_rules          |-> IF TruthySet(other.include_rules) THEN other.include_rules
                                ELSE self.include_rules,
     exclude_rules          |-> IF TruthySet(other.exclude_rules) THEN other.exclude_rules
                                ELSE self.exclude_rules,
     include_rules_patterns |-> IF TruthySet(other.include_rules_patterns)
                                THEN other.include_rules_patterns
                                ELSE self.include_rules_patterns,
     exclude_rules_patterns |-> IF TruthySet(other.exclude_rules_patterns)
                                THEN other.exclude_rules_patterns
                                ELSE self.exclude_rules_patterns,
     reports                |-> IF TruthySeq(other.reports) THEN other.reports ELSE self.reports,
     persistent             |-> IF TruthyBool(other.persistent) THEN other.persistent
                                ELSE self.persistent,
     compare                |-> IF TruthyBool(other.compare) THEN other.compare
                                ELSE self.compare]

\* Config.overwrite_from_config; overlay is None or Some(Config). The
\* overlay of the check command always carries a LinterConfig.
overwrite_from_config(self, overlay) ==
    IF overlay = None THEN self
    ELSE LET other == Val(overlay) IN
         [sources       |-> IF TruthySeq(other.sources) THEN other.sources ELSE self.sources,
          file_filters  |-> FileFilters_overwrite(self.file_filters, other.file_filters),
          linter        |-> Linter_overwrite(self.linter, other.linter),
          language      |-> IF TruthySeq(other.language) THEN other.language ELSE self.language,
          exit_zero     |-> IF TruthyBool(other.exit_zero) THEN other.exit_zero
                            ELSE self.exit_zero,
          config_source |-> self.config_source]

----------------------------------------------------------------------------
(* ConfigManager.__init__ and get_default_config (config.py) *)

\* the Config a configuration file yields before the overlay is applied;
\* only called where read_toml_config returned keys
LoadedConfig(path) == Config_from_toml(Val(read_toml_config(path)[2]), path)

\* get_default_config: <<"raise", exception>> or <<"ok", Config>>
get_default_config(path, overlay) ==
    IF path # None
    THEN LET read == read_toml_config(Val(path)) IN
         IF read[1] = "raise" THEN <<"raise", "FileError">>
         ELSE IF read[2] = None THEN <<"raise", "AttributeError">>
         ELSE <<"ok", overwrite_from_config(LoadedConfig(Val(path)), overlay)>>
    ELSE <<"ok", overwrite_from_config(DefaultConfig, overlay)>>

\* ConfigManager.__init__
ConfigManagerInit ==
    /\ UNCHANGED storeVars
    /\ UNCHANGED registryVars
    /\ default_config = 0
    /\ raised = ""
    /\ LET got == get_default_config(config_path, overwrite_config) IN
         IF got[1] = "raise"
         THEN /\ raised' = got[2]
              /\ UNCHANGED <<configs, default_config>>
         ELSE /\ configs' = Append(configs, got[2])
              /\ default_config' = Len(configs) + 1
              /\ UNCHANGED raised
    /\ overridden_config' = (config_path # None)
    /\ cached_configs' = [d \in Dirs |-> 0]
    /\ UNCHANGED <<config_path, overwrite_config, ignore_git_dir>>
    /\ UNCHANGED fsVars
    /\ UNCHANGED linterVars
    /\ UNCHANGED lookupVars
    /\ UNCHANGED pathVars
    /\ UNCHANGED runVars

----------------------------------------------------------------------------
(* ConfigManager.find_closest_config and get_config_for_source_file *)

\* A source path: a file in directory d, or directory d itself
FileIn(d) == <<"file", d, "f.robot">>

DirAt(d) == <<"dir", d, "">>

Sources == {FileIn(d) : d \in Dirs} \cup {DirAt(d) : d \in Dirs}

\* The directory the walk starts in: the parent of the source, unless the
\* source is the root or a directory holding .git (while .git counts)
StartDir(source) ==
    LET d == source[2] IN
    IF source[1] = "file" THEN d
    ELSE IF (ignore_git_dir \/ d \notin git_dirs) /\ d # ROOT THEN Parent(d)
    ELSE d

\* The loop over CONFIG_NAMES in one directory, from position i of the
\* iteration order: the first file that is there and yields a configuration
RECURSIVE ProbeFrom(_, _)
ProbeFrom(d, i) ==
    IF i > Len(hash_order) THEN <<"nothing">>
    ELSE LET path == <<d, hash_order[i]>> IN
         IF ~is_file(path) THEN ProbeFrom(d, i + 1)
         ELSE LET read == read_toml_config(path) IN
              IF read[1] = "raise" THEN <<"raise">>
              ELSE IF read[2] = None THEN ProbeFrom(d, i + 1)
              ELSE <<"found", path>>

Lookup(outcome, cfg, path, seen) ==
    [outcome |-> outcome, cfg |-> cfg, path |-> path, seen |-> seen]

\* The loop over check_dirs from directory d on, seen being the directories
\* passed so far
RECURSIVE WalkNoCache(_, _)
WalkNoCache(d, seen) ==
    LET probe == ProbeFrom(d, 1) IN
    IF probe[1] = "raise" THEN Lookup("raise", 0, None, Append(seen, d))
    ELSE IF probe[1] = "found" THEN Lookup("found", 0, Some(probe[2]), Append(seen, d))
    ELSE IF (~ignore_git_dir /\ d \in git_dirs) \/ d = ROOT
         THEN Lookup("default", default_config, None, Append(seen, d))
    ELSE WalkNoCache(Parent(d), Append(seen, d))

RECURSIVE Walk(_, _)
Walk(d, seen) ==
    IF cached_configs[d] # 0 THEN Lookup("cached", cached_configs[d], None, seen)
    ELSE LET probe == ProbeFrom(d, 1) IN
         IF probe[1] = "raise" THEN Lookup("raise", 0, None, Append(seen, d))
         ELSE IF probe[1] = "found" THEN Lookup("found", 0, Some(probe[2]), Append(seen, d))
         ELSE IF (~ignore_git_dir /\ d \in git_dirs) \/ d = ROOT
              THEN Lookup("default", default_config, None, Append(seen, d))
         ELSE Walk(Parent(d), Append(seen, d))

find_closest_config_no_cache(source) == WalkNoCache(StartDir(source), <<>>)

find_closest_config(source) == Walk(StartDir(source), <<>>)

get_config_for_source_file_always_walks(source) == find_closest_config(source)

get_config_for_source_file(source) ==
    IF overridden_config THEN Lookup("overridden", default_config, None, <<>>)
    ELSE find_closest_config(source)

Range(seq) == {seq[i] : i \in 1..Len(seq)}

\* What one call of get_config_for_source_file leaves behind: a configuration
\* found is loaded, merged with the overlay and becomes a new Config; the
\* directories in seen are entered into the cache.
ReturnedConfig(got) == IF got.outcome = "found" THEN Len(configs) + 1 ELSE got.cfg

GetConfigEffects(source, got) ==
    LET cfg == ReturnedConfig(got) IN
    /\ configs' = IF got.outcome = "found"
                  THEN Append(configs, overwrite_from_config(LoadedConfig(Val(got.path)),
                                                             overwrite_config))
                  ELSE configs
    /\ cached_configs' = IF got.outcome \in {"found", "default"}
                         THEN [d \in Dirs |-> IF d \in Range(got.seen) THEN cfg
                                              ELSE cached_configs[d]]
                         ELSE cached_configs
    /\ last_lookup' = [source |-> source, outcome |-> got.outcome, cfg |-> cfg,
                       seen |-> got.seen,
                       previous |-> IF source[1] = "file" THEN results[source[2]] ELSE 0]
    /\ results' = IF source[1] = "file" /\ got.outcome # "raise"
                   THEN [results EXCEPT ![source[2]] = cfg]
                   ELSE results

\* One call of get_config_for_source_file
GetConfigForSourceFile(source) ==
    /\ UNCHANGED storeVars
    /\ UNCHANGED registryVars
    /\ raised = ""
    /\ default_config # 0
    /\ LET got == get_config_for_source_file(source) IN
       /\ raised' = IF got.outcome = "raise" THEN "FileError" ELSE raised
       /\ GetConfigEffects(source, got)
    /\ UNCHANGED <<config_path, overwrite_config, ignore_git_dir, overridden_config,
                   default_config>>
    /\ UNCHANGED fsVars
    /\ UNCHANGED linterVars
    /\ UNCHANGED pathVars
    /\ UNCHANGED runVars

\* no call yet
LookupIdle ==
    /\ last_lookup = [source |-> <<"none", ROOT, "">>, outcome |-> "none", cfg |-> 0, seen |-> <<>>,
                      previous |-> 0]
    /\ results = [d \in Dirs |-> 0]

----------------------------------------------------------------------------
(* ConfigManager.paths and resolve_paths (config.py) *)

\* the robot files of the project, and a path that does not exist
X_ROBOT == <<"file", "/a", "x.robot">>

Y_ROBOT == <<"file", "/b", "y.robot">>

N_TXT == <<"file", "/a/s", "n.txt">>

RobotFiles == {X_ROBOT, Y_ROBOT, N_TXT}

MISSING == <<"file", "/b", "gone.robot">>

\* the working directory of the process
CWD == ROOT

\* Path.exists, Path.is_dir and Path.is_file of a (resolved) source
is_dir(source) == source[1] = "dir" /\ source[2] \in Dirs

exists_whatever_the_path(source) == TRUE

exists(source) ==
    \/ is_dir(source)
    \/ source \in RobotFiles
    \/ (source[1] = "file" /\ source[3] \in CONFIG_NAMES /\ is_file(<<source[2], source[3]>>))

\* Path.iterdir: the directories and files directly below directory d
iterdir(d) ==
    {DirAt(c) : c \in {x \in Dirs : x # ROOT /\ Parent(x) = d}}
    \cup {f \in RobotFiles : f[2] = d}
    \cup {<<"file", d, n>> : n \in {m \in CONFIG_NAMES : is_file(<<d, m>>)}}

\* the last component of a path
PathName(source) ==
    IF source[1] = "file" THEN source[3]
    ELSE CASE source[2] = "/a"   -> "a"
           [] source[2] = "/b"   -> "b"
           [] source[2] = "/a/s" -> "s"
           [] OTHER              -> ""

PathSuffix(source) ==
    CASE PathName(source) \in {"x.robot", "y.robot", "gone.robot", "f.robot"} -> ".robot"
      [] PathName(source) = "n.txt"                                         -> ".txt"
      [] PathName(source) \in CONFIG_NAMES                                  -> ".toml"
      [] OTHER                                                              -> ""

\* Path.match for the patterns of the model: "*<suffix>" matches by the
\* suffix of the last component, any other pattern is a plain name that
\* must equal the last component
path_match(source, pattern) ==
    CASE pattern = "*.robot"    -> PathSuffix(source) = ".robot"
      [] pattern = "*.resource" -> PathSuffix(source) = ".resource"
      [] pattern = "*.txt"      -> PathSuffix(source) = ".txt"
      [] OTHER                  -> PathName(source) = pattern

\* FileFiltersOptions.path_excluded
path_excluded(filters, source) ==
    \/ TruthySet(filters.exclude) /\ \E pattern \in Val(filters.exclude) : path_match(source, pattern)
    \/ TruthySet(filters.extend_exclude)
          /\ \E pattern \in Val(filters.extend_exclude) : path_match(source, pattern)

\* FileFiltersOptions.path_included: "raise" where include_paths.extend is
\* called, a set having no such method
path_included(filters, source) ==
    IF TruthySet(filters.extend_include) THEN "raise"
    ELSE IF \E pattern \in Val(filters.include) : path_match(source, pattern) THEN "yes"
    ELSE "no"

\* the sources the paths property starts resolve_paths with; the sources of
\* the default Config are ["."], each the working directory
TopSources ==
    IF sources # <<>> THEN sources
    ELSE [i \in DOMAIN Val(configs[default_config].sources) |-> DirAt(CWD)]

Work(source, ignore_file_filters) ==
    [source |-> source, ignore_file_filters |-> ignore_file_filters]

\* the orders in which iterdir may yield the members of a set
Orders(S) ==
    {order \in [1..Cardinality(S) -> S] : \A x \in S : \E i \in DOMAIN order : order[i] = x}

PathsOf(entries) == {entries[i][1] : i \in DOMAIN entries}

\* the file filters of the Config get_config_for_source_file returned
FiltersOf(got) ==
    (IF got.outcome = "found"
     THEN overwrite_from_config(LoadedConfig(Val(got.path)), overwrite_config)
     ELSE configs[got.cfg]).file_filters

ignore_file_filters_never == FALSE

\* paths: ignore_file_filters = bool(sources), of the sources it hands to
\* resolve_paths
ignore_file_filters_of_paths == TopSources # <<>>

\* the first access of the paths property: _paths becomes the empty dict and
\* resolve_paths is entered with the top level sources; bool(sources) is
\* true, so these are taken whatever the file filters say
PathsStart ==
    /\ UNCHANGED storeVars
    /\ UNCHANGED registryVars
    /\ pc = "start"
    /\ raised = ""
    /\ worklist' = [i \in DOMAIN TopSources |->
                        Work(TopSources[i], ignore_file_filters_of_paths)]
    /\ paths' = <<>>
    /\ pc' = "resolve"
    /\ UNCHANGED sources
    /\ UNCHANGED <<robot_files, position, issues_no, reports, messages, printed, finalized,
                   status_code, exit_code, scans>>
    /\ UNCHANGED <<configs, raised>>
    /\ UNCHANGED fsVars
    /\ UNCHANGED linterVars
    /\ UNCHANGED managerVars
    /\ UNCHANGED lookupVars

\* One pass of the loop of resolve_paths, for the source at the head of the
\* innermost call still running. A directory that is kept starts a nested
\* call over its members, in the order iterdir yields them.
ResolvePath ==
    /\ UNCHANGED storeVars
    /\ UNCHANGED registryVars
    /\ pc = "resolve"
    /\ worklist # <<>>
    /\ LET source == Head(worklist).source
           ignore_file_filters == Head(worklist).ignore_file_filters
           rest == Tail(worklist)
           got == get_config_for_source_file(source)
           after(w) == IF w = <<>> THEN "files" ELSE "resolve"
       IN
       IF source \in PathsOf(paths)
       THEN /\ worklist' = rest
            /\ pc' = after(rest)
            /\ UNCHANGED <<paths, configs, cached_configs, raised>>
            /\ UNCHANGED lookupVars
       ELSE IF ~exists(source)
       THEN /\ raised' = "FileError"
            /\ pc' = "aborted"
            /\ UNCHANGED <<worklist, paths, configs, cached_configs>>
            /\ UNCHANGED lookupVars
       ELSE IF got.outcome = "raise"
       THEN /\ raised' = "FileError"
            /\ pc' = "aborted"
            /\ GetConfigEffects(source, got)
            /\ UNCHANGED <<worklist, paths>>
       ELSE LET filters == FiltersOf(got)
                excluded == ~ignore_file_filters /\ path_excluded(filters, source)
                included == IF ignore_file_filters \/ excluded \/ is_dir(source) THEN "yes"
                            ELSE path_included(filters, source)
            IN
            /\ GetConfigEffects(source, got)
            /\ IF included = "raise"
               THEN /\ raised' = "AttributeError"
                    /\ pc' = "aborted"
                    /\ UNCHANGED <<worklist, paths>>
               ELSE IF excluded \/ included = "no"
               THEN /\ worklist' = rest
                    /\ pc' = after(rest)
                    /\ UNCHANGED <<paths, raised>>
               ELSE IF is_dir(source)
               THEN /\ \E order \in Orders(iterdir(source[2])) :
                          /\ worklist' = [i \in DOMAIN order |-> Work(order[i], FALSE)] \o rest
                          /\ pc' = after(worklist')
                    /\ UNCHANGED <<paths, raised>>
               ELSE /\ paths' = Append(paths, <<source, ReturnedConfig(got)>>)
                    /\ worklist' = rest
                    /\ pc' = after(rest)
                    /\ UNCHANGED raised
    /\ UNCHANGED sources
    /\ UNCHANGED <<robot_files, position, issues_no, reports, messages, printed, finalized,
                   status_code, exit_code, scans>>
    /\ UNCHANGED <<config_path, overwrite_config, ignore_git_dir, overridden_config,
                   default_config>>
    /\ UNCHANGED fsVars
    /\ UNCHANGED linterVars

----------------------------------------------------------------------------
(* Reports (reports/__init__.py) *)

\* the reports load_reports finds, in the order it finds them, and their
\* DEFAULT flags
LOADED_REPORTS == <<"internal_json_report", "return_status", "rules_by_id", "sarif">>

ReportDefault(report) == report \in {"return_status", "rules_by_id"}

\* how a report is spelled in a configure directive
ReportChars(report) ==
    CASE report = "return_status"        -> <<"r", "s">>
      [] report = "rules_by_id"          -> <<"r", "i">>
      [] report = "sarif"                -> <<"s", "f">>
      [] OTHER                           -> <<"i", "j">>

disable_external_reports_never(configured_reports) == configured_reports

disable_external_reports_if_none(configured_reports) ==
    IF "None" \in Range(configured_reports)
    THEN IF "internal_json_report" \in Range(configured_reports)
         THEN <<"return_status", "internal_json_report">>
         ELSE <<"return_status">>
    ELSE configured_reports

\* enabled extended by the loaded reports from position i on that are
\* default and not yet enabled
RECURSIVE EnableDefaults(_, _)
EnableDefaults(enabled, i) ==
    IF i > Len(LOADED_REPORTS) THEN enabled
    ELSE LET name == LOADED_REPORTS[i] IN
         EnableDefaults(IF ReportDefault(name) /\ name \notin Range(enabled)
                        THEN Append(enabled, name) ELSE enabled,
                        i + 1)

\* the loop of get_reports from position i of the configured list on
RECURSIVE EnableReports(_, _, _)
EnableReports(configured_reports, i, enabled) ==
    IF i > Len(configured_reports) THEN <<"ok", enabled>>
    ELSE LET report == configured_reports[i] IN
         IF report = "all"
         THEN EnableReports(configured_reports, i + 1, EnableDefaults(enabled, 1))
         ELSE IF report \notin Range(LOADED_REPORTS) THEN <<"raise", "InvalidReportName">>
         ELSE EnableReports(configured_reports, i + 1,
                            IF report \notin Range(enabled) THEN Append(enabled, report)
                            ELSE enabled)

\* the reports of the list that are loaded, unknown names passed over
get_reports_passing_over_unknown(configured_reports) ==
    EnableReports(SelectSeq(disable_external_reports_if_none(configured_reports),
                            LAMBDA report : report \in Range(LOADED_REPORTS) \cup {"all"}),
                  1, <<>>)

get_reports(configured_reports) ==
    EnableReports(disable_external_reports_if_none(configured_reports), 1, <<>>)

----------------------------------------------------------------------------
(* RobocopLinter.configure_checkers_or_reports (runner.py) *)

RECURSIVE IndexOf(_, _, _)
IndexOf(text, ch, i) ==
    IF i > Len(text) THEN 0
    ELSE IF text[i] = ch THEN i
    ELSE IndexOf(text, ch, i + 1)

\* str.split(ch, maxsplit=1)
Split(text, ch) ==
    LET i == IndexOf(text, ch, 1) IN
    IF i = 0 THEN <<text>>
    ELSE <<SubSeq(text, 1, i - 1), SubSeq(text, i + 1, Len(text))>>

\* the keys of self.rules that are equal to name: rule ids and rule names
RulesNamed(name) == {r \in RuleKeys : RuleId(r) = name \/ RuleName(r) = name}

\* Rule.configure: the severity parameter takes a severity letter; anything
\* else is a configuration error
Rule_configure(rule, param, value) ==
    IF param = <<"s">> /\ value \in {<<"I">>, <<"W">>, <<"E">>}
    THEN [raised |-> "",
          rule   |-> [rule EXCEPT !.severity = CASE value = <<"I">> -> INFO
                                                [] value = <<"W">> -> WARNING
                                                [] OTHER           -> ERROR]]
    ELSE [raised |-> "ConfigGeneralError", rule |-> rule]

Configured(exception, rs) == [raised |-> exception, rules |-> rs]

\* the body of the loop for one directive
ApplyDirective(directive, rs, reps) ==
    LET first == Split(directive, ".") IN
    IF Len(first) < 2 THEN Configured("ConfigGeneralError", rs)
    ELSE LET second == Split(first[2], "=") IN
         IF Len(second) < 2 THEN Configured("ConfigGeneralError", rs)
         ELSE LET name  == first[1]
                  param == second[1]
                  value == second[2]
              IN
              IF RulesNamed(name) # {}
              THEN LET r == CHOOSE x \in RulesNamed(name) : TRUE IN
                   IF rs[r].deprecated THEN Configured("", rs)
                   ELSE LET done == Rule_configure(rs[r], param, value) IN
                        Configured(done.raised, [rs EXCEPT ![r] = done.rule])
              ELSE IF \E report \in Range(reps) : ReportChars(report) = name
              THEN Configured("ConfigGeneralError", rs)
              ELSE Configured("RuleOrReportDoesNotExist", rs)

\* the loop over config.linter.configure from position i on: the first
\* exception ends it
RECURSIVE configure_checkers_or_reports(_, _, _, _)
configure_checkers_or_reports(directives, i, rs, reps) ==
    IF i > Len(directives) THEN Configured("", rs)
    ELSE LET applied == ApplyDirective(directives[i], rs, reps) IN
         IF applied.raised # "" THEN applied
         ELSE configure_checkers_or_reports(directives, i + 1, applied.rules, reps)

----------------------------------------------------------------------------
(* Diagnostics, RobocopLinter.run_check and report (runner.py) *)

\* what a checker comes across in a file: the rule and the position
Finding(rule, line, col) == [rule |-> rule, line |-> line, col |-> col]

Diagnostic(rule, source, line, col, severity) ==
    [rule |-> rule, source |-> source, line |-> line, col |-> col, severity |-> severity]

\* self.checkers, in the order of registration
CHECKERS == <<"DuplicationsChecker", "LengthChecker">>

\* the place of a rule id in the order of strings
RuleOrder(r) ==
    CASE r = "DUP01" -> 1
      [] r = "DUP02" -> 2
      [] OTHER       -> 3

\* Diagnostic.__lt__ for two diagnostics of one file
DiagnosticLess(a, b) ==
    \/ a.line < b.line
    \/ a.line = b.line /\ a.col < b.col
    \/ a.line = b.line /\ a.col = b.col /\ RuleOrder(a.rule) < RuleOrder(b.rule)

\* list.sort: insertion of each element behind the elements not greater
RECURSIVE InsertSorted(_, _)
InsertSorted(sorted, x) ==
    IF sorted = <<>> THEN <<x>>
    ELSE IF DiagnosticLess(x, Head(sorted)) THEN <<x>> \o sorted
    ELSE <<Head(sorted)>> \o InsertSorted(Tail(sorted), x)

Sort_left_as_scanned(seq) == seq

RECURSIVE Sort(_)
Sort(seq) ==
    IF seq = <<>> THEN <<>>
    ELSE InsertSorted(Sort(SubSeq(seq, 1, Len(seq) - 1)), seq[Len(seq)])

RECURSIVE InFileOrder(_)
InFileOrder(S) ==
    IF S = {} THEN <<>>
    ELSE LET first == CHOOSE x \in S : \A y \in S \ {x} : DiagnosticLess(x, y) IN
         <<first>> \o InFileOrder(S \ {first})

\* checker.scan_file: the diagnostics of the checker's enabled rules, as the
\* visitor comes across them, each with the severity its rule has now
scan_file(checker, file, rs) ==
    InFileOrder({Diagnostic(f.rule, file, f.line, f.col, rs[f.rule].severity) :
                    f \in {g \in robot_files[file].findings :
                              g.rule \in CheckerRules(checker) /\ rs[g.rule].enabled}})

\* the list comprehension of run_check
Surviving(seq, file, linter) ==
    SelectSeq(seq, LAMBDA d : /\ d.rule \notin robot_files[file].suppressed
                              /\ ~(d.severity < Val(linter.threshold)))

\* the loop over self.checkers from position i on
RECURSIVE ScanFrom(_, _, _, _, _)
ScanFrom(i, file, rs, dis, linter) ==
    IF i > Len(CHECKERS) THEN <<>>
    ELSE (IF dis[CHECKERS[i]] THEN <<>>
          ELSE Surviving(scan_file(CHECKERS[i], file, rs), file, linter))
         \o ScanFrom(i + 1, file, rs, dis, linter)

\* the checkers whose scan_file run_check calls for a file
ScannedCheckers(file, dis) ==
    IF robot_files[file].file_disabled THEN {}
    ELSE {checker \in Checkers : ~dis[checker]}

run_check_ignores_file_disabled(file, rs, dis, linter) == ScanFrom(1, file, rs, dis, linter)

run_check(file, rs, dis, linter) ==
    IF robot_files[file].file_disabled THEN <<>>
    ELSE ScanFrom(1, file, rs, dis, linter)

\* get_model_for_file_type: the model of the file, or the DataError of the
\* parser for a file it cannot decode
get_model_for_file_type(file) ==
    IF robot_files[file].decodable THEN "model" ELSE "DataError"

FileDiagnostics_without_except(file, rs, dis, linter) == Sort(run_check(file, rs, dis, linter))

\* the diagnostics of one pass of the loop of run: none after the continue
\* of the DataError handler, else those of run_check, sorted
FileDiagnostics(file, rs, dis, linter) ==
    IF get_model_for_file_type(file) = "DataError" THEN <<>>
    ELSE Sort(run_check(file, rs, dis, linter))

\* what print writes for a diagnostic
Printed(diagnostic, issue_format) == [diagnostic |-> diagnostic, format |-> issue_format]

----------------------------------------------------------------------------
(* The persistence store: load_reports_result_from_cache and                *)
(* save_reports_result_to_cache (reports/__init__.py)                       *)

\* the project roots that may have an entry in the store
Roots == {"/p", "/q", "/r"}

\* an entry of the store: the results saved for a root, "none" where the
\* root is no key of the mapping
Results == {"old", "first", "second"}

NoEntries == [root \in Roots |-> "none"]

\* the file .robocop_cache: absent, not decodable as JSON, or a JSON object
\* from roots to results
CacheFile(kind, dict) == [kind |-> kind, dict |-> dict]

NoCacheFile == CacheFile("absent", NoEntries)

\* load_reports_result_from_cache: None without the file or for a file
\* json.load cannot decode, else the mapping
load_reports_result_from_cache(file) ==
    IF file.kind = "json" THEN Some(file.dict) ELSE None

\* save_reports_result_to_cache up to the assignment: the mapping that is
\* written, made of what was loaded
save_reports_result_dropping_others(loaded, working_dir, report_results) ==
    [NoEntries EXCEPT ![working_dir] = report_results]

save_reports_result(loaded, working_dir, report_results) ==
    [(IF loaded = None THEN NoEntries ELSE Val(loaded)) EXCEPT ![working_dir] = report_results]

\* no run uses the store
StoreIdle ==
    /\ cache_file = NoCacheFile
    /\ cache_before = NoCacheFile
    /\ savers = <<>>

----------------------------------------------------------------------------
(* RobocopLinter.register_checker (runner.py) *)

\* a Rule class: the rule_id and name its instances carry
RuleClass(rule_id, name) == [rule_id |-> rule_id, name |-> name]

RuleClassOf(r) == RuleClass(RuleId(r), RuleName(r))

\* the annotations of the checkers RobocopLinter.__init__ registers
DuplicationsCheckerAnnotations == <<RuleClassOf("DUP01"), RuleClassOf("DUP02")>>

LengthCheckerAnnotations == <<RuleClassOf("LEN01")>>

\* rule classes of checkers beyond those: one with the id of DUP01 under a
\* name of its own, one with the name of DUP01 under an id of its own
RuleClasses ==
    {RuleClassOf(r) : r \in RuleKeys} \cup
    {RuleClass(RuleId("DUP01"), <<"n", "e", "w">>), RuleClass(<<"9", "9">>, RuleName("DUP01"))}

RuleIds == {rule_class.rule_id : rule_class \in RuleClasses}

RuleNames == {rule_class.name : rule_class \in RuleClasses}

\* self.rules = {} and self.checkers = [], before any checker is registered
NoCheckerRegistered ==
    [registry  |-> [key \in RuleIds \cup RuleNames |-> 0],
     instances |-> <<>>,
     checkers  |-> <<>>]

\* register_checker(checker): one Rule instance is made per annotation and
\* stored under its id and under its name in self.rules and under its name
\* in checker.rules; then the checker is appended to self.checkers
RECURSIVE register_checker(_, _, _)
register_checker(linter, checker_rules, checker_annotations) ==
    IF checker_annotations = <<>>
    THEN [linter EXCEPT !.checkers = Append(@, checker_rules)]
    ELSE LET rule_class    == Head(checker_annotations)
             rule_instance == Len(linter.instances) + 1
             by_id   == [linter.registry EXCEPT ![rule_class.rule_id] = rule_instance]
             by_name == [by_id EXCEPT ![rule_class.name] = rule_instance]
         IN  register_checker([linter EXCEPT !.instances = Append(@, rule_class),
                                             !.registry = by_name],
                              [checker_rules EXCEPT ![rule_class.name] = rule_instance],
                              Tail(checker_annotations))

\* checker.rules of a checker that is not registered yet
NoRules == [name \in RuleNames |-> 0]

\* the loop of RobocopLinter.__init__ over its checkers
BuiltInCheckers ==
    register_checker(register_checker(NoCheckerRegistered, NoRules,
                                      DuplicationsCheckerAnnotations),
                     NoRules, LengthCheckerAnnotations)

\* the registry of a constructed linter
Registered ==
    /\ registry = BuiltInCheckers.registry
    /\ instances = BuiltInCheckers.instances
    /\ checkers = BuiltInCheckers.checkers

----------------------------------------------------------------------------
(* RobocopLinter.run, make_reports and return_with_exit_code (runner.py) *)

\* One pass of the loop of run, for the next entry of paths
\* report called for the diagnostics of a file, the first report alone
\* being handed them
report_diagnostics_to_first(handed, active, diagnostics) ==
    [name \in DOMAIN handed |->
        IF active # <<>> /\ name = active[1] THEN handed[name] \o diagnostics ELSE handed[name]]

\* RobocopLinter.report called for the diagnostics of a file, one after the
\* other: add_message of every report of self.reports is handed each
report_diagnostics(handed, active, diagnostics) ==
    [name \in DOMAIN handed |->
        IF name \in Range(active) THEN handed[name] \o diagnostics ELSE handed[name]]

ProcessFile ==
    /\ UNCHANGED storeVars
    /\ UNCHANGED registryVars
    /\ pc = "files"
    /\ position < Len(paths)
    /\ LET file == paths[position + 1][1]
           cfg == paths[position + 1][2]
           linter == configs[cfg].linter
           configured == configure_checkers_or_reports(Val(linter.configure), 1, rules, reports)
       IN
       /\ config' = cfg
       /\ IF configured.raised # ""
          THEN /\ rules' = configured.rules
               /\ raised' = configured.raised
               /\ pc' = "aborted"
               /\ UNCHANGED <<disabled, refreshed, position, issues_no, messages, printed,
                              scans>>
          ELSE LET rs == RefreshedRules(configured.rules, linter)
                   dis == RefreshedCheckers(rs, disabled)
                   diagnostics == FileDiagnostics(file, rs, dis, linter)
               IN
               /\ rules' = rs
               /\ disabled' = dis
               /\ refreshed' = TRUE
               /\ position' = position + 1
               /\ issues_no' = issues_no + Len(diagnostics)
               /\ messages' = report_diagnostics(messages, reports, diagnostics)
               /\ printed' = printed \o [i \in DOMAIN diagnostics |->
                                            Printed(diagnostics[i], linter.issue_format)]
               /\ scans' = scans \cup
                              (IF get_model_for_file_type(file) = "DataError" THEN {}
                               ELSE {<<file, checker>> : checker \in ScannedCheckers(file, dis)})
               /\ UNCHANGED <<raised, pc>>
    /\ UNCHANGED <<default_enabled, configs>>
    /\ UNCHANGED <<robot_files, reports, finalized, status_code, exit_code>>
    /\ UNCHANGED fsVars
    /\ UNCHANGED managerVars
    /\ UNCHANGED lookupVars
    /\ UNCHANGED pathVars

\* the codes the return_status report may arrive at
StatusCodes == 0..MaxStatusCode

\* make_reports, after the last file: get_report of every report in turn.
\* The return_status report settles its exit_code there. With persistent
\* set the last line names save_reports_result_to_cache, which runner.py
\* does not import.
\* the loop of make_reports over self.reports.values() without the last report
get_report_calls_but_last(active) == SubSeq(active, 1, Len(active) - 1)

\* the loop of make_reports over self.reports.values(): the reports whose
\* get_report is called, in the order of the calls
get_report_calls(active) == active

MakeReports ==
    /\ UNCHANGED storeVars
    /\ UNCHANGED registryVars
    /\ pc = "files"
    /\ position = Len(paths)
    /\ finalized' = get_report_calls(reports)
    /\ IF "return_status" \in Range(reports)
       THEN \E code \in StatusCodes : status_code' = Some(code)
       ELSE UNCHANGED status_code
    /\ IF TruthyBool(configs[default_config].linter.persistent)
       THEN /\ raised' = "NameError"
            /\ pc' = "aborted"
       ELSE /\ pc' = "reported"
            /\ UNCHANGED raised
    /\ UNCHANGED <<robot_files, position, issues_no, reports, messages, printed, exit_code,
                   scans>>
    /\ UNCHANGED configs
    /\ UNCHANGED fsVars
    /\ UNCHANGED linterVars
    /\ UNCHANGED managerVars
    /\ UNCHANGED lookupVars
    /\ UNCHANGED pathVars

return_with_exit_code_status_first(issues_count) ==
    IF "return_status" \in Range(reports) THEN Val(status_code)
    ELSE IF TruthyBool(configs[default_config].exit_zero) THEN 0
    ELSE IF issues_count # 0 THEN 1 ELSE 0

\* return_with_exit_code: the code of the typer.Exit it raises
return_with_exit_code(issues_count) ==
    IF TruthyBool(configs[default_config].exit_zero) THEN 0
    ELSE IF "return_status" \in Range(reports) THEN Val(status_code)
    ELSE IF issues_count # 0 THEN 1 ELSE 0

\* the last statement of run
ReturnWithExitCode ==
    /\ UNCHANGED storeVars
    /\ UNCHANGED registryVars
    /\ pc = "reported"
    /\ exit_code' = Some(return_with_exit_code(issues_no))
    /\ pc' = "done"
    /\ UNCHANGED <<robot_files, position, issues_no, reports, messages, printed, finalized,
                   status_code, scans>>
    /\ UNCHANGED <<configs, raised>>
    /\ UNCHANGED fsVars
    /\ UNCHANGED linterVars
    /\ UNCHANGED managerVars
    /\ UNCHANGED lookupVars
    /\ UNCHANGED pathVars

\* no run: the state of a process that only builds its objects
RunIdle ==
    /\ robot_files = [f \in RobotFiles |->
                         [decodable |-> TRUE, file_disabled |-> FALSE, suppressed |-> {},
                          findings |-> {}]]
    /\ sources = <<>>
    /\ worklist = <<>>
    /\ paths = <<>>
    /\ pc = "idle"
    /\ position = 0
    /\ issues_no = 0
    /\ reports = <<>>
    /\ messages = [report \in Range(LOADED_REPORTS) |-> <<>>]
    /\ printed = <<>>
    /\ finalized = <<>>
    /\ status_code = None
    /\ exit_code = None
    /\ scans = {}
    /\ StoreIdle
    /\ Registered

----------------------------------------------------------------------------
(* Rule selection: "robocop list rules" (cli.py, list_rules) builds a      *)
(* linter and refreshes the rules once under its Config. The Config and    *)
(* the rules' metadata are the inputs.                                     *)

\* what a select or ignore list may hold: a rule id, a rule name, patterns,
\* and an id with its severity letter
SelectEntries ==
    {<<"0", "1">>, <<"d", "k", "w">>, <<"*">>, <<"0", "*">>, <<"W", "1", "1">>}

\* select and ignore are lists in the code; the order of their entries has
\* no effect on the sets __post_init__ derives, so a list is a set here
EntryLists == {S \in SUBSET SelectEntries : Cardinality(S) <= MaxEntries}

ListRulesCall ==
    /\ UNCHANGED storeVars
    /\ UNCHANGED registryVars
    /\ check_for_disabled_rules
    /\ UNCHANGED <<config, configs, default_enabled, raised>>
    /\ UNCHANGED fsVars
    /\ UNCHANGED managerVars
    /\ UNCHANGED lookupVars
    /\ UNCHANGED pathVars
    /\ UNCHANGED runVars

\* a file system without configuration files
NoConfigFiles ==
    /\ toml_files = [p \in (Dirs \cup {ELSEWHERE}) \X CONFIG_NAMES |-> AbsentFile]
    /\ git_dirs = {}
    /\ hash_order = <<ROBOTIDY_TOML, PYPROJECT_TOML>>

InitMatcher ==
    /\ RunIdle
    /\ \E select \in EntryLists, ignore \in EntryLists, threshold \in Severities :
           configs = <<[DefaultConfig EXCEPT
                          !.linter = LinterConfig(Some(<<>>), Some(select), Some(ignore),
                                                  Some(DEFAULT_ISSUE_FORMAT), Some(threshold),
                                                  Some(<<>>), Some(FALSE), Some(FALSE))]>>
    /\ config = 1
    /\ NoConfigFiles
    /\ config_path = None
    /\ overwrite_config = None
    /\ ignore_git_dir = FALSE
    /\ overridden_config = FALSE
    /\ default_config = 1
    /\ cached_configs = [d \in Dirs |-> 0]
    /\ LookupIdle
    /\ raised = ""
    /\ \E deprecated \in BOOLEAN, enabled_in_version \in BOOLEAN, severity \in Severities,
          enabled \in BOOLEAN, severity_threshold \in BOOLEAN :
           rules = [r \in RuleKeys |->
                      CASE r = "DUP01" -> Rule(r, deprecated, enabled_in_version, severity,
                                               enabled, severity_threshold)
                        [] r = "DUP02" -> Rule(r, FALSE, TRUE, WARNING, TRUE, FALSE)
                        [] OTHER       -> Rule(r, FALSE, TRUE, ERROR, FALSE, FALSE)]
    /\ default_enabled = [r \in RuleKeys |-> rules[r].enabled]
    /\ disabled = [c \in Checkers |-> FALSE]
    /\ refreshed = FALSE

NextMatcher == ListRulesCall

SpecMatcher == InitMatcher /\ [][NextMatcher]_vars

\* the LinterConfig of the Config the linter works under
CurrentLinter == configs[config].linter

Excluded(rule, linter) ==
    \/ rule.rule_id \in Val(linter.exclude_rules)
    \/ rule.name \in Val(linter.exclude_rules)
    \/ MatchesAny(Val(linter.exclude_rules_patterns), rule)

Included(rule, linter) ==
    \/ rule.rule_id \in Val(linter.include_rules)
    \/ rule.name \in Val(linter.include_rules)
    \/ MatchesAny(Val(linter.include_rules_patterns), rule)

\* C2: a rule whose id or name is in the exclude set or matches an exclude
\* pattern is not enabled, whatever the include set and patterns hold; after
\* the refresh its enabled flag is false.
C2_ExcludeDefeatsInclude ==
    \A r \in RuleKeys :
        Excluded(rules[r], CurrentLinter) =>
            /\ ~is_rule_enabled(rules[r], CurrentLinter)
            /\ refreshed => ~rules[r].enabled

\* an otherwise healthy rule that is both excluded by name and matched by
\* the include pattern "*", after the refresh
C2_Witness ==
    /\ refreshed
    /\ \E r \in RuleKeys :
          /\ rules[r].rule_id \in Val(CurrentLinter.exclude_rules)
          /\ <<"*">> \in Val(CurrentLinter.include_rules_patterns)
          /\ Included(rules[r], CurrentLinter)
          /\ ~rules[r].deprecated /\ rules[r].enabled_in_version
          /\ default_enabled[r]
          /\ ~rules[r].enabled

\* C3: with a non-empty include set or include-pattern set, a rule that
\* passes the deprecated, version, threshold and exclude checks is enabled
\* exactly if its id or name is included or matches an include pattern.
C3_IncludeIsAllowList ==
    \A r \in RuleKeys :
        ( /\ TruthySet(CurrentLinter.include_rules) \/ TruthySet(CurrentLinter.include_rules_patterns)
          /\ ~is_rule_disabled(rules[r], CurrentLinter) ) =>
            /\ is_rule_enabled(rules[r], CurrentLinter) <=> Included(rules[r], CurrentLinter)
            /\ refreshed => (rules[r].enabled <=> Included(rules[r], CurrentLinter))

\* after the refresh: one rule enabled by default is off because the include
\* list does not name it, another one disabled by default is on because it does
C3_Witness ==
    /\ refreshed
    /\ \E r \in RuleKeys :
          /\ ~is_rule_disabled(rules[r], CurrentLinter)
          /\ default_enabled[r] /\ ~Included(rules[r], CurrentLinter) /\ ~rules[r].enabled
    /\ \E r \in RuleKeys :
          /\ ~is_rule_disabled(rules[r], CurrentLinter)
          /\ ~default_enabled[r] /\ Included(rules[r], CurrentLinter) /\ rules[r].enabled

\* C4: a deprecated rule, or one whose version range excludes the running
\* version, is not enabled under any Config, and after the refresh its
\* enabled flag is false.
C4_DeprecatedNeverEnabled ==
    \A r \in RuleKeys :
        (rules[r].deprecated \/ ~rules[r].enabled_in_version) =>
            /\ ~is_rule_enabled(rules[r], CurrentLinter)
            /\ refreshed => ~rules[r].enabled

\* a deprecated rule, enabled by default, named by the include set and
\* excluded by nothing, after the refresh
C4_Witness ==
    /\ refreshed
    /\ \E r \in RuleKeys :
          /\ rules[r].deprecated
          /\ rules[r].enabled_in_version
          /\ default_enabled[r]
          /\ rules[r].rule_id \in Val(CurrentLinter.include_rules)
          /\ ~Excluded(rules[r], CurrentLinter)
          /\ ~rules[r].enabled

WithThreshold(linter, t) == [linter EXCEPT !.threshold = Some(t)]

\* C5: for two Configs that differ only in threshold, t1 <= t2, every rule
\* enabled under t2 is enabled under t1.
C5_ThresholdMonotonic ==
    \A t1 \in Severities, t2 \in Severities :
        t1 <= t2 =>
            \A r \in RuleKeys :
                is_rule_enabled(rules[r], WithThreshold(CurrentLinter, t2)) =>
                    is_rule_enabled(rules[r], WithThreshold(CurrentLinter, t1))

\* the threshold does remove a rule: one enabled under the current threshold
\* and refreshed so is not enabled under a higher one
C5_Witness ==
    /\ refreshed
    /\ \E r \in RuleKeys, t2 \in Severities :
          /\ Val(CurrentLinter.threshold) < t2
          /\ rules[r].enabled
          /\ is_rule_enabled(rules[r], CurrentLinter)
          /\ ~is_rule_enabled(rules[r], WithThreshold(CurrentLinter, t2))

----------------------------------------------------------------------------
(* The merge of a file Config with the command line overlay: the inputs    *)
(* are the --config file and the overlay, the operation is the             *)
(* construction of the ConfigManager.                                      *)

EXPLICIT_PATH == <<ELSEWHERE, ROBOTIDY_TOML>>

\* the linter, before any file is processed
LinterIdle ==
    /\ config = 0
    /\ rules = [r \in RuleKeys |-> Rule(r, FALSE, TRUE, WARNING, TRUE, FALSE)]
    /\ default_enabled = [r \in RuleKeys |-> TRUE]
    /\ disabled = [c \in Checkers |-> FALSE]
    /\ refreshed = FALSE

\* the --config files of the merge
MergeFiles ==
    {MalformedFile} \cup
    {File("toml", tool_table, TomlWith(Toml(configure, None, None, None), unknown)) :
        tool_table \in BOOLEAN,
        configure \in {None, Some(<<ConfigureDupSeverity>>)},
        unknown \in {{"colour"}, {"lint.colour"}}} \cup
    {File("toml", tool_table, Toml(configure, None, include, exit_zero)) :
        tool_table \in BOOLEAN,
        configure \in {None, Some(<<>>), Some(<<ConfigureDupSeverity>>)},
        include \in {None, Some({"*.txt"})},
        exit_zero \in {None, Some(TRUE)}}

\* The overlay check_files builds (cli.py): every option the user did not
\* give is None, every option given holds its value.
Overlays ==
    {Config(Some(<<".">>),
            FileFiltersOptions(include, None, None, None),
            LinterConfig(configure, select, None, None, threshold, None, None, None),
            language, exit_zero, <<"default configuration">>) :
        include \in {None, Some({}), Some({"*.robot"})},
        configure \in {None, Some(<<>>), Some(<<ConfigureLenSeverity>>)},
        select \in {None, Some({}), Some({<<"0", "1">>})},
        threshold \in {None, Some(ERROR)},
        language \in {None, Some(<<>>), Some(<<"pl">>)},
        exit_zero \in {None, Some(FALSE), Some(TRUE)}}

InitMerge ==
    /\ RunIdle
    /\ LinterIdle
    /\ configs = <<>>
    /\ \E file \in MergeFiles :
          toml_files = [p \in (Dirs \cup {ELSEWHERE}) \X CONFIG_NAMES |->
                           IF p = EXPLICIT_PATH THEN file ELSE AbsentFile]
    /\ git_dirs = {}
    /\ hash_order = <<ROBOTIDY_TOML, PYPROJECT_TOML>>
    /\ config_path \in {None, Some(EXPLICIT_PATH)}
    /\ overwrite_config \in {None} \cup {Some(o) : o \in Overlays}
    /\ ignore_git_dir = FALSE
    /\ overridden_config = FALSE
    /\ default_config = 0
    /\ cached_configs = [d \in Dirs |-> 0]
    /\ LookupIdle
    /\ raised = ""

NextMerge == ConfigManagerInit

SpecMerge == InitMerge /\ [][NextMerge]_vars

\* the Config the overlay was merged into: the file's, or the defaults
FileConfig == IF config_path # None THEN LoadedConfig(Val(config_path)) ELSE DefaultConfig

TopLevelFields == {"sources", "language", "exit_zero"}

LinterFields ==
    {"configure", "select", "ignore", "issue_format", "threshold", "reports", "persistent",
     "compare"}

FileFilterFields == {"include", "extend_include", "exclude", "extend_exclude"}

\* field by field: a field the overlay sets holds the overlay's value after
\* the merge, a field it leaves None holds the file's value
MergedAsClaimed(merged, file, overlay) ==
    /\ \A f \in TopLevelFields :
          merged[f] = IF overlay[f] # None THEN overlay[f] ELSE file[f]
    /\ \A f \in LinterFields :
          merged.linter[f] = IF overlay.linter[f] # None THEN overlay.linter[f]
                             ELSE file.linter[f]
    /\ \A f \in FileFilterFields :
          merged.file_filters[f] = IF overlay.file_filters[f] # None
                                   THEN overlay.file_filters[f]
                                   ELSE file.file_filters[f]

\* C6: after the merge of the file Config with the overlay, every field the
\* caller set in the overlay holds the overlay's value, False and the empty
\* list included, and every field the caller did not set holds the file's.
C6_CliFieldsWin ==
    (default_config # 0 /\ overwrite_config # None) =>
        MergedAsClaimed(configs[default_config], FileConfig, Val(overwrite_config))

----------------------------------------------------------------------------
(* Config discovery: a ConfigManager over a file system, asked for the     *)
(* Config of source paths in any order (resolve_paths asks once per path   *)
(* it comes across).                                                       *)

\* robotidy.toml with [lint] ignore = ["01"]
RobotidyFile == File("toml", FALSE, Toml(None, Some({<<"0", "1">>}), None, None))

\* pyproject.toml with [tool.robocop.lint] configure = [...]
PyprojectFile == File("toml", TRUE, Toml(Some(<<ConfigureLenSeverity>>), None, None, None))

\* pyproject.toml without a [tool.robocop] table
PyprojectNoSection == File("toml", FALSE, EmptyToml)

\* what a directory holds: <<robotidy.toml, pyproject.toml>>
LayoutNone == <<AbsentFile, AbsentFile>>

LayoutRobotidy == <<RobotidyFile, AbsentFile>>

LayoutPyproject == <<AbsentFile, PyprojectFile>>

LayoutBoth == <<RobotidyFile, PyprojectFile>>

LayoutNoSection == <<AbsentFile, PyprojectNoSection>>

LayoutMalformed == <<MalformedFile, AbsentFile>>

LayoutsOf(d) ==
    CASE d = ROOT -> {LayoutNone}
      [] d = "/a" -> {LayoutNone, LayoutBoth, LayoutNoSection, LayoutMalformed}
      [] d = "/b" -> {LayoutNone, LayoutPyproject}
      [] OTHER    -> {LayoutNone, LayoutRobotidy}

\* the directories that may hold .git
GitCandidates == {"/a", "/a/s"}

FileSystems ==
    {[p \in (Dirs \cup {ELSEWHERE}) \X CONFIG_NAMES |->
         IF p = EXPLICIT_PATH THEN RobotidyFile
         ELSE IF p[1] = ELSEWHERE THEN AbsentFile
         ELSE IF p[2] = ROBOTIDY_TOML THEN layout[p[1]][1]
         ELSE layout[p[1]][2]] :
     layout \in {l \in [Dirs -> UNION {LayoutsOf(d) : d \in Dirs}] :
                    \A d \in Dirs : l[d] \in LayoutsOf(d)}}

\* the iteration orders of frozenset CONFIG_NAMES: it follows the hashes of
\* the two strings, which differ from process to process
HashOrders == {<<ROBOTIDY_TOML, PYPROJECT_TOML>>, <<PYPROJECT_TOML, ROBOTIDY_TOML>>}

\* the state ConfigManager.__init__ leaves
Constructed ==
    /\ configs = <<get_default_config(config_path, overwrite_config)[2]>>
    /\ default_config = 1
    /\ overridden_config = (config_path # None)
    /\ cached_configs = [d \in Dirs |-> 0]

InitDiscovery ==
    /\ RunIdle
    /\ LinterIdle
    /\ LookupIdle
    /\ toml_files \in FileSystems
    /\ \/ /\ config_path = None
          /\ git_dirs \in SUBSET GitCandidates
          /\ hash_order \in HashOrders
          /\ ignore_git_dir \in BOOLEAN
       \/ /\ config_path = Some(EXPLICIT_PATH)
          /\ git_dirs = {}
          /\ hash_order = <<ROBOTIDY_TOML, PYPROJECT_TOML>>
          /\ ignore_git_dir = FALSE
    /\ overwrite_config = None
    /\ Constructed
    /\ raised = ""

NextDiscovery == \E source \in Sources : GetConfigForSourceFile(source)

SpecDiscovery == InitDiscovery /\ [][NextDiscovery]_vars

\* C7: with --config, every call returns the one Config loaded from that
\* path, goes through no directory, and the cache never gets an entry.
C7_ExplicitConfigSkipsDiscovery ==
    config_path # None =>
        /\ Len(configs) = 1
        /\ configs[default_config].config_source = Val(config_path)
        /\ \A d \in Dirs : cached_configs[d] = 0
        /\ last_lookup.outcome # "none" =>
              /\ last_lookup.cfg = default_config
              /\ last_lookup.seen = <<>>

\* with --config, the Config of a file was asked for twice in a directory
\* that holds a usable configuration file of its own
C7_Witness ==
    /\ config_path # None
    /\ \E d \in Dirs :
          /\ last_lookup.source = FileIn(d)
          /\ last_lookup.previous # 0
          /\ is_file(<<d, ROBOTIDY_TOML>>)
          /\ read_toml_config(<<d, ROBOTIDY_TOML>>) = <<"ok", Some(RobotidyFile.keys)>>
          /\ last_lookup.cfg = default_config

\* a configuration file that is there and yields a configuration
Usable(path) ==
    /\ is_file(path)
    /\ read_toml_config(path)[1] = "ok"
    /\ read_toml_config(path)[2] # None

\* C8: where a directory holds both configuration files and both yield a
\* configuration, the Config discovery loads is the tool-specific one's.
C8_ToolSpecificFirst ==
    \A i \in 1..Len(configs) :
        \A d \in Dirs :
            (Usable(<<d, ROBOTIDY_TOML>>) /\ Usable(<<d, PYPROJECT_TOML>>)) =>
                configs[i].config_source # <<d, PYPROJECT_TOML>>

\* C9: every call for a file returns the very Config object that the call
\* before it for a file of the same directory returned, whatever calls lie
\* between the two.
C9_SameDirectorySameConfig ==
    (last_lookup.source[1] = "file" /\ last_lookup.outcome # "raise"
        /\ last_lookup.previous # 0) =>
        last_lookup.cfg = last_lookup.previous

\* a second call for a file of a directory that has no cache entry of its
\* own, answered from an ancestor's entry with a Config loaded from a file
C9_Witness ==
    \E d \in Dirs :
        /\ last_lookup.source = FileIn(d)
        /\ last_lookup.outcome = "cached"
        /\ last_lookup.seen # <<>>
        /\ cached_configs[d] = 0
        /\ last_lookup.cfg # default_config
        /\ last_lookup.previous = last_lookup.cfg

----------------------------------------------------------------------------
(* A run of "robocop check": the ConfigManager and the linter are built,   *)
(* run() resolves the paths, takes the files one by one, makes the         *)
(* reports and exits. The inputs are the configuration files, the command  *)
(* line and what the robot files hold.                                     *)

\* robotidy.toml with [lint] configure = ["01.s=E"]
LayoutConfigure ==
    <<File("toml", FALSE, Toml(Some(<<ConfigureDupSeverity>>), None, None, None)), AbsentFile>>

\* robotidy.toml with a configure directive for a rule that does not exist
LayoutUnknownTarget ==
    <<File("toml", FALSE, Toml(Some(<<ConfigureUnknownTarget>>), None, None, None)), AbsentFile>>

\* the configuration files of a run: /a may hold a robotidy.toml
RunFileSystems ==
    {[p \in (Dirs \cup {ELSEWHERE}) \X CONFIG_NAMES |->
         IF p[1] # "/a" THEN AbsentFile
         ELSE IF p[2] = ROBOTIDY_TOML THEN layout[1]
         ELSE layout[2]] :
     layout \in {LayoutNone, LayoutRobotidy, LayoutConfigure, LayoutUnknownTarget}}

\* the overlay of a run: --reports and --exit-zero given or not, or
\* --ignore with the id of DUP01, or --select with the id of LEN01, or
\* --threshold E with or without --select with the id of DUP01
RunOverlays ==
    {Config(Some(<<".">>),
            FileFiltersOptions(None, None, None, None),
            LinterConfig(None, None, None, None, None, reports_option, None, None),
            None, exit_zero, <<"default configuration">>) :
        reports_option \in {None, Some(<<"return_status">>),
                            Some(<<"rules_by_id", "return_status">>)},
        exit_zero \in {None, Some(TRUE)}}
    \cup
    {Config(Some(<<".">>),
            FileFiltersOptions(None, None, None, None),
            LinterConfig(None, rule_options[1], rule_options[2], None, None,
                         Some(<<"return_status">>), None, None),
            None, None, <<"default configuration">>) :
        rule_options \in {<<None, Some({RuleId("DUP01")})>>, <<Some({RuleId("LEN01")}), None>>}}
    \cup
    {Config(Some(<<".">>),
            FileFiltersOptions(None, None, None, None),
            LinterConfig(None, select, None, None, Some(ERROR),
                         Some(<<"return_status">>), None, None),
            None, None, <<"default configuration">>) :
        select \in {None, Some({RuleId("DUP01")})}}

\* the source arguments of a run: files only, or none (the working
\* directory is walked) and a directory beside a file
FileSources ==
    {<<X_ROBOT, Y_ROBOT>>, <<Y_ROBOT, X_ROBOT>>, <<X_ROBOT, MISSING>>, <<MISSING, X_ROBOT>>}

DirectorySources ==
    {<<>>, <<DirAt("/a"), Y_ROBOT>>, <<DirAt("/a"), N_TXT>>, <<X_ROBOT, DirAt("/a/s")>>}

\* the overlay of a run over directories: --include and --exclude given or not
FilterOverlays ==
    {Config(Some(<<".">>),
            FileFiltersOptions(include, None, exclude, None),
            LinterConfig(None, None, None, None, None, None, None, None),
            None, None, <<"default configuration">>) :
        include \in {None, Some({"*.txt"})},
        exclude \in {None, Some({"s"}), Some({"x.robot"})}}

\* what the checkers may come across in a robot file
PossibleFindings == {Finding("DUP01", 2, 1), Finding("LEN01", 1, 1)}

RobotFile(decodable, file_disabled, suppressed, findings) ==
    [decodable |-> decodable, file_disabled |-> file_disabled, suppressed |-> suppressed,
     findings |-> findings]

InitRun ==
    /\ LookupIdle
    /\ toml_files \in RunFileSystems
    /\ git_dirs = {}
    /\ hash_order = <<ROBOTIDY_TOML, PYPROJECT_TOML>>
    /\ config_path = None
    /\ ignore_git_dir = FALSE
    /\ \/ /\ sources \in FileSources
          /\ overwrite_config \in {Some(o) : o \in RunOverlays}
          /\ \E x_disabled \in BOOLEAN, y_decodable \in BOOLEAN,
                x_findings \in SUBSET PossibleFindings,
                y_findings \in SUBSET PossibleFindings :
                 robot_files = [f \in RobotFiles |->
                                   CASE f = X_ROBOT -> RobotFile(TRUE, x_disabled, {}, x_findings)
                                     [] f = Y_ROBOT -> RobotFile(y_decodable, FALSE, {}, y_findings)
                                     [] OTHER       -> RobotFile(TRUE, FALSE, {}, {})]
       \/ /\ sources \in DirectorySources
          /\ overwrite_config \in {Some(o) : o \in FilterOverlays}
          /\ robot_files = [f \in RobotFiles |->
                               CASE f = N_TXT -> RobotFile(TRUE, FALSE, {}, {})
                                 [] OTHER     -> RobotFile(TRUE, FALSE, {}, PossibleFindings)]
    /\ Constructed
    /\ worklist = <<>>
    /\ paths = <<>>
    /\ config = default_config
    /\ rules = [r \in RuleKeys |-> Rule(r, FALSE, TRUE, WARNING, TRUE, FALSE)]
    /\ default_enabled = [r \in RuleKeys |-> TRUE]
    /\ disabled = [c \in Checkers |-> FALSE]
    /\ refreshed = FALSE
    /\ get_reports(Val(configs[default_config].linter.reports))[1] = "ok"
    /\ reports = get_reports(Val(configs[default_config].linter.reports))[2]
    /\ pc = "start"
    /\ position = 0
    /\ issues_no = 0
    /\ messages = [report \in Range(LOADED_REPORTS) |-> <<>>]
    /\ printed = <<>>
    /\ finalized = <<>>
    /\ status_code = None
    /\ exit_code = None
    /\ scans = {}
    /\ StoreIdle
    /\ Registered
    /\ raised = ""

NextRun ==
    \/ PathsStart
    \/ ResolvePath
    \/ ProcessFile
    \/ MakeReports
    \/ ReturnWithExitCode

SpecRun == InitRun /\ [][NextRun]_vars

\* --exit-zero was given on the command line
ExitZeroConfigured == Val(overwrite_config).exit_zero = Some(TRUE)

\* C1: the exit code of a run is 0 if exit_zero is configured, whatever the
\* issue count and the reports; else the code of the return_status report
\* if that report is active; else 1 for a nonzero issue count and 0 for none.
C1_ExitCode ==
    exit_code # None =>
        Val(exit_code) = IF ExitZeroConfigured THEN 0
                         ELSE IF "return_status" \in Range(reports) THEN Val(status_code)
                         ELSE IF issues_no > 0 THEN 1
                         ELSE 0

\* --exit-zero with three issues and an active return_status report whose
\* code is not 0: the run exits with 0
C1_Witness ==
    /\ pc = "done"
    /\ ExitZeroConfigured
    /\ issues_no = 3
    /\ "return_status" \in Range(reports)
    /\ status_code # None /\ Val(status_code) # 0
    /\ exit_code = Some(0)

\* the diagnostics of rule r for file f that were delivered: printed, and
\* handed to every active report
DeliveredTo(report, f, r) ==
    {messages[report][i] : i \in {j \in DOMAIN messages[report] :
                                     messages[report][j].source = f /\ messages[report][j].rule = r}}

PrintedFor(f, r) ==
    {printed[i].diagnostic : i \in {j \in DOMAIN printed :
                                       printed[j].diagnostic.source = f
                                       /\ printed[j].diagnostic.rule = r}}

\* scenario A: x.robot lies below /a, whose robotidy.toml ignores DUP01,
\* y.robot below /b with no configuration file above it; both are given as
\* sources and the loop of run has taken both
ScenarioA ==
    /\ Usable(<<"/a", ROBOTIDY_TOML>>)
    /\ Val(read_toml_config(<<"/a", ROBOTIDY_TOML>>)[2]).ignore = Some({RuleId("DUP01")})
    /\ ~is_file(<<"/b", ROBOTIDY_TOML>>) /\ ~is_file(<<"/b", PYPROJECT_TOML>>)
    /\ ~is_file(<<ROOT, ROBOTIDY_TOML>>) /\ ~is_file(<<ROOT, PYPROJECT_TOML>>)
    /\ sources \in {<<X_ROBOT, Y_ROBOT>>, <<Y_ROBOT, X_ROBOT>>}
    /\ pc \in {"files", "reported", "done"}
    /\ position = 2

\* C10: in scenario A no DUP01 diagnostic of the first file is printed or
\* handed to a report, and every DUP01 finding of the second file is
\* printed and handed to every active report, in either order of the files.
C10_ScenarioA ==
    ScenarioA =>
        /\ PrintedFor(X_ROBOT, "DUP01") = {}
        /\ \A report \in Range(reports) : DeliveredTo(report, X_ROBOT, "DUP01") = {}
        /\ (robot_files[Y_ROBOT].decodable /\ ~robot_files[Y_ROBOT].file_disabled) =>
              \A f \in {g \in robot_files[Y_ROBOT].findings : g.rule = "DUP01"} :
                  /\ \E d \in PrintedFor(Y_ROBOT, "DUP01") : d.line = f.line /\ d.col = f.col
                  /\ \A report \in Range(reports) :
                        \E d \in DeliveredTo(report, Y_ROBOT, "DUP01") :
                            d.line = f.line /\ d.col = f.col

\* the files the loop of run has taken so far
Processed == {paths[i][1] : i \in 1..position}

\* the diagnostics of file f printed so far, and handed to a report so far
PrintedOf(f) == {i \in DOMAIN printed : printed[i].diagnostic.source = f}

HandedOf(report, f) == {i \in DOMAIN messages[report] : messages[report][i].source = f}

\* C11: a file whose disablers report file_disabled yields no diagnostic and
\* no call of a checker's scan_file, whatever rules and checkers are enabled:
\* nothing of it is printed or handed to a report, and the issue count is
\* the number of diagnostics of the other files.
C11_FileDisabled ==
    /\ issues_no = Len(printed)
    /\ \A f \in Processed :
          robot_files[f].file_disabled =>
              /\ PrintedOf(f) = {}
              /\ \A report \in Range(LOADED_REPORTS) : HandedOf(report, f) = {}
              /\ \A checker \in Checkers : <<f, checker>> \notin scans

\* x.robot is disabled as a whole, holds findings of two enabled rules of
\* two enabled checkers, and was taken after y.robot, whose two diagnostics
\* are the whole issue count
C11_Witness ==
    /\ sources = <<Y_ROBOT, X_ROBOT>>
    /\ position = 2
    /\ robot_files[X_ROBOT].file_disabled
    /\ robot_files[X_ROBOT].findings = PossibleFindings
    /\ \A checker \in Checkers : ~disabled[checker]
    /\ \A f \in PossibleFindings : rules[f.rule].enabled
    /\ issues_no = 2
    /\ PrintedOf(Y_ROBOT) # {}

\* the run was ended by configure_checkers_or_reports
ConfigureAborted ==
    pc = "aborted" /\ raised \in {"ConfigGeneralError", "RuleOrReportDoesNotExist"}

\* C12: a malformed configure directive or an unknown configure target ends
\* the whole run with nothing emitted: whichever file's Config carries the
\* directive, no diagnostic of any file was printed or handed to a report
\* before the abort, and no report is finalized.
C12_NoPartialEmission ==
    ConfigureAborted =>
        /\ printed = <<>>
        /\ \A report \in Range(LOADED_REPORTS) : messages[report] = <<>>
        /\ finalized = <<>>

\* the diagnostics of file f printed so far, in the order of printing
PrintedSeq(f) ==
    LET OfFile(p) == p.diagnostic.source = f
        lines == SelectSeq(printed, OfFile)
    IN [i \in DOMAIN lines |-> lines[i].diagnostic]

\* C13: a file the parser cannot decode is skipped and the run goes on:
\* nothing of the file is scanned, printed, handed to a report or counted,
\* the file taken after it is configured, scanned by every enabled checker
\* and reported, and a run that reaches its end has taken every file and
\* finalized every report.
C13_ParseFailureRecovered ==
    \A i \in 1..position :
        get_model_for_file_type(paths[i][1]) = "DataError" =>
            /\ PrintedOf(paths[i][1]) = {}
            /\ \A report \in Range(LOADED_REPORTS) : HandedOf(report, paths[i][1]) = {}
            /\ \A checker \in Checkers : <<paths[i][1], checker>> \notin scans
            /\ issues_no = Len(printed)
            /\ (i < position /\ pc # "aborted") =>
                  LET g == paths[position][1] IN
                  /\ config = paths[position][2]
                  /\ refreshed
                  /\ get_model_for_file_type(g) = "model" =>
                        /\ \A checker \in ScannedCheckers(g, disabled) : <<g, checker>> \in scans
                        /\ PrintedSeq(g) = Sort(run_check(g, rules, disabled, configs[config].linter))
                        /\ \A report \in Range(reports) :
                              SelectSeq(messages[report], LAMBDA d : d.source = g) = PrintedSeq(g)
            /\ pc \in {"reported", "done"} => (position = Len(paths) /\ finalized = reports)

\* y.robot cannot be decoded although it holds two findings; x.robot, taken
\* after it, had its finding printed and handed to return_status, the
\* reports were finalized and the run ended with one issue counted
C13_Witness ==
    /\ sources = <<Y_ROBOT, X_ROBOT>>
    /\ ~robot_files[Y_ROBOT].decodable
    /\ robot_files[Y_ROBOT].findings = PossibleFindings
    /\ pc = "done"
    /\ position = 2
    /\ Len(PrintedSeq(X_ROBOT)) = 1
    /\ Len(messages["return_status"]) = 1
    /\ <<X_ROBOT, "LengthChecker">> \in scans
    /\ finalized = reports
    /\ issues_no = 1

\* the files discovery can come across: the robot files and the
\* configuration files that exist
DiscoverableFiles ==
    RobotFiles \cup {<<"file", p[1], p[2]>> : p \in {q \in Dirs \X CONFIG_NAMES : is_file(q)}}

\* the file filters of the Config that governs a source
GoverningFilters(source) == FiltersOf(get_config_for_source_file(source))

\* the directories resolve_paths descends into: those given as sources, and
\* the members of such a directory that are not excluded
RECURSIVE DescendedInto(_)
DescendedInto(d) ==
    \/ DirAt(d) \in Range(TopSources)
    \/ /\ d # ROOT
       /\ DescendedInto(Parent(d))
       /\ ~path_excluded(GoverningFilters(DirAt(d)), DirAt(d))

\* discovery has come to its end
Discovered == pc \notin {"start", "resolve", "aborted"}

C14_WitnessExcluded ==
    /\ Discovered
    /\ sources = <<X_ROBOT, DirAt("/a/s")>>
    /\ Val(overwrite_config).file_filters.include = Some({"*.txt"})
    /\ path_excluded(GoverningFilters(X_ROBOT), X_ROBOT)
    /\ PathsOf(paths) = {X_ROBOT, N_TXT}

\* the working directory is walked with --exclude s --include *.txt: n.txt
\* matches the include pattern but lies below the excluded /a/s
C14_WitnessNotDescended ==
    /\ Discovered
    /\ sources = <<>>
    /\ Val(overwrite_config).file_filters = FileFiltersOptions(Some({"*.txt"}), None, Some({"s"}), None)
    /\ path_included(GoverningFilters(N_TXT), N_TXT) = "yes"
    /\ ~DescendedInto("/a/s")
    /\ PathsOf(paths) = {}

\* C15: a source that does not exist ends the run in discovery, wherever it
\* stands among the sources: once resolve_paths is left the run is aborted
\* with the file error, no file was scanned, and no diagnostic was printed,
\* counted or handed to a report.
C15_MissingSourceIsFatal ==
    (MISSING \in Range(TopSources) /\ pc \notin {"start", "resolve"}) =>
        /\ pc = "aborted"
        /\ raised = "FileError"
        /\ position = 0
        /\ scans = {}
        /\ printed = <<>>
        /\ issues_no = 0
        /\ \A report \in Range(LOADED_REPORTS) : messages[report] = <<>>
        /\ finalized = <<>>

\* the missing path is the second source: x.robot, which holds findings,
\* was already entered into the paths when the file error ended the run
C15_Witness ==
    /\ sources = <<X_ROBOT, MISSING>>
    /\ pc = "aborted"
    /\ raised = "FileError"
    /\ PathsOf(paths) = {X_ROBOT}
    /\ robot_files[X_ROBOT].findings = PossibleFindings
    /\ ~robot_files[X_ROBOT].file_disabled

\* the missing path is the first source
C15_WitnessFirst ==
    /\ sources = <<MISSING, X_ROBOT>>
    /\ pc = "aborted"
    /\ raised = "FileError"
    /\ paths = <<>>

\* the configuration file given with --config holds a key that names no
\* field of Config or LinterConfig
UnknownKeyInFile ==
    /\ config_path # None
    /\ toml_files[Val(config_path)].kind = "toml"
    /\ toml_files[Val(config_path)].keys.unknown # {}

\* C16: an unknown key in a configuration file is a configuration error:
\* loading a file that holds a top-level or linter key which names no field
\* fails, and no Config is made from the file.
C16_UnknownKeyIsError ==
    UnknownKeyInFile => default_config = 0

\* the diagnostics of file f handed to a report so far, in the order of
\* the add_message calls
HandedSeq(report, f) == SelectSeq(messages[report], LAMBDA d : d.source = f)

\* a sequence of diagnostics ascends strictly in the order of Diagnostic
Ascending(seq) == \A i, j \in DOMAIN seq : i < j => DiagnosticLess(seq[i], seq[j])

SeqRange(seq) == {seq[i] : i \in DOMAIN seq}

\* C17: for every file the loop of run has taken, every active report was
\* handed the same sequence of diagnostics of the file, which ascends
\* strictly in the order of diagnostics (line, column, rule id within the
\* file), so holds none twice; for the file taken last it consists of
\* exactly the diagnostics run_check let through.
C17_OrderedDelivery ==
    /\ \A f \in Processed :
          \A report \in Range(reports) :
              /\ Ascending(HandedSeq(report, f))
              /\ HandedSeq(report, f) = PrintedSeq(f)
              /\ \A other \in Range(reports) : HandedSeq(other, f) = HandedSeq(report, f)
    /\ (position > 0 /\ pc # "aborted"
          /\ get_model_for_file_type(paths[position][1]) = "model") =>
          \A report \in Range(reports) :
              /\ SeqRange(HandedSeq(report, paths[position][1]))
                    = SeqRange(run_check(paths[position][1], rules, disabled, configs[config].linter))
              /\ Len(HandedSeq(report, paths[position][1]))
                    = Len(run_check(paths[position][1], rules, disabled, configs[config].linter))

\* two reports are active; run_check yields the DUP01 diagnostic of line 2
\* of y.robot before the LEN01 diagnostic of line 1, and both reports were
\* handed the two in the order of the lines
C17_Witness ==
    /\ reports = <<"rules_by_id", "return_status">>
    /\ position > 0
    /\ pc = "files"
    /\ paths[position][1] = Y_ROBOT
    /\ Len(run_check(Y_ROBOT, rules, disabled, configs[config].linter)) = 2
    /\ run_check(Y_ROBOT, rules, disabled, configs[config].linter)[1].rule = "DUP01"
    /\ Len(HandedSeq("rules_by_id", Y_ROBOT)) = 2
    /\ HandedSeq("rules_by_id", Y_ROBOT)[1].rule = "LEN01"
    /\ HandedSeq("return_status", Y_ROBOT) = HandedSeq("rules_by_id", Y_ROBOT)

\* the rule of a diagnostic is enabled, by its flag and under the Config of
\* the file being processed
EnabledNow(r, flags, linter) == flags[r].enabled /\ is_rule_enabled(flags[r], linter)

C18_WitnessChecker ==
    /\ Val(overwrite_config).linter.select = Some({RuleId("LEN01")})
    /\ position > 0
    /\ paths[position][1] = Y_ROBOT
    /\ robot_files[Y_ROBOT].findings = PossibleFindings
    /\ robot_files[Y_ROBOT].decodable
    /\ disabled["DuplicationsChecker"]
    /\ <<Y_ROBOT, "DuplicationsChecker">> \notin scans
    /\ {d.rule : d \in SeqRange(PrintedSeq(Y_ROBOT))} = {"LEN01"}

----------------------------------------------------------------------------
(* The reports of a linter: RobocopLinter.__init__ over the --reports list *)

\* the names a --reports list of the model is made of: the none marker,
\* all, three loaded reports and a name no report has
ReportNames == {"None", "all", "sarif", "internal_json_report", "return_status", "bogus"}

ReportLists == UNION {[1..n -> ReportNames] : n \in 0..MaxReports}

\* the overlay of check_files for --reports
ReportsOverlay(list) ==
    Config(Some(<<".">>),
           FileFiltersOptions(None, None, None, None),
           LinterConfig(None, None, None, None, None, Some(list), None, None),
           None, None, <<"default configuration">>)

\* RobocopLinter.__init__: the default Config becomes the current one, the
\* checkers and their rules are registered, and get_reports makes
\* self.reports of config.linter.reports or raises
RobocopLinterInit ==
    /\ UNCHANGED storeVars
    /\ UNCHANGED registryVars
    /\ pc = "idle"
    /\ raised = ""
    /\ default_config # 0
    /\ config' = default_config
    /\ LET got == get_reports(Val(configs[default_config].linter.reports)) IN
         IF got[1] = "raise"
         THEN /\ raised' = got[2]
              /\ pc' = "aborted"
              /\ UNCHANGED reports
         ELSE /\ reports' = got[2]
              /\ pc' = "start"
              /\ UNCHANGED raised
    /\ UNCHANGED <<rules, disabled, refreshed, default_enabled, configs>>
    /\ UNCHANGED <<robot_files, position, issues_no, messages, printed, finalized,
                   status_code, exit_code, scans>>
    /\ UNCHANGED fsVars
    /\ UNCHANGED managerVars
    /\ UNCHANGED lookupVars
    /\ UNCHANGED pathVars

InitReports ==
    /\ RunIdle
    /\ LinterIdle
    /\ LookupIdle
    /\ NoConfigFiles
    /\ config_path = None
    /\ overwrite_config \in {Some(ReportsOverlay(list)) : list \in ReportLists}
    /\ ignore_git_dir = FALSE
    /\ Constructed
    /\ raised = ""

NextReports == RobocopLinterInit

SpecReports == InitReports /\ [][NextReports]_vars

\* config.linter.reports of the default Config: what get_reports is given
ConfiguredReports == Val(configs[default_config].linter.reports)

C19_WitnessInternal ==
    /\ ConfiguredReports = <<"internal_json_report", "None", "bogus">>
    /\ pc = "start"
    /\ reports = <<"return_status", "internal_json_report">>

\* the configured list holds a name that is no loaded report, not all and
\* not the none marker
UnknownReportConfigured ==
    \E name \in Range(ConfiguredReports) : name \notin Range(LOADED_REPORTS) \cup {"all", "None"}

\* get_reports raised the error for an unknown name and self.reports was
\* never assigned
InvalidReportNameRaised ==
    /\ pc = "aborted"
    /\ raised = "InvalidReportName"
    /\ reports = <<>>

\* C20, as stated: whenever the configured list holds a name that is
\* neither a loaded report nor all, get_reports raises the error for an
\* invalid report name and yields no reports, wherever the name stands and
\* whatever else the list holds.
C20_UnknownReportIsFatal ==
    (pc # "idle" /\ UnknownReportConfigured) => InvalidReportNameRaised

\* C20, amended: the same for every configured list without the none
\* marker; a list with the marker is cut down to the always-on reports
\* before any name is looked up, so its unknown names raise nothing.
C20_UnknownReportIsFatalWithoutNone ==
    /\ (pc # "idle" /\ UnknownReportConfigured /\ "None" \notin Range(ConfiguredReports)) =>
          InvalidReportNameRaised
    /\ (pc # "idle" /\ "None" \in Range(ConfiguredReports)) => raised = ""

\* the unknown name stands between a loaded report and all
C20_Witness ==
    /\ ConfiguredReports = <<"sarif", "bogus", "all">>
    /\ InvalidReportNameRaised

----------------------------------------------------------------------------
(* Runs over one persistence store: make_reports loads the store, and a    *)
(* persistent run saves its results with save_reports_result_to_cache,     *)
(* which loads the store again and writes it back. Two runs may take       *)
(* these steps in any order.                                               *)

Runs == {"first", "second"}

Saver(working_dir, persistent, at, loaded) ==
    [working_dir |-> working_dir, report_results |-> "none", persistent |-> persistent,
     at |-> at, loaded |-> loaded]

\* what the store may hold before the runs
InitialCacheFiles ==
    {NoCacheFile, CacheFile("corrupt", NoEntries)} \cup
    {CacheFile("json", dict) : dict \in [Roots -> {"none", "old"}]}

\* make_reports, first statement: prev_results of the store; a run that is
\* not persistent is through with the store
MakeReportsLoad(run) ==
    /\ savers[run].at = "start"
    /\ savers' = [savers EXCEPT ![run].loaded = load_reports_result_from_cache(cache_file),
                                ![run].at = IF savers[run].persistent THEN "save" ELSE "done"]
    /\ UNCHANGED <<cache_file, cache_before>>

\* save_reports_result_to_cache up to the assignment to prev_results
SaveLoad(run) ==
    /\ savers[run].at = "save"
    /\ savers' = [savers EXCEPT ![run].loaded = load_reports_result_from_cache(cache_file),
                                ![run].report_results = run,
                                ![run].at = "write"]
    /\ UNCHANGED <<cache_file, cache_before>>

\* save_reports_result_to_cache: open(cache_file, "w") and the write
SaveWrite(run) ==
    /\ savers[run].at = "write"
    /\ cache_file' = CacheFile("json", save_reports_result(savers[run].loaded,
                                                           savers[run].working_dir,
                                                           savers[run].report_results))
    /\ savers' = [savers EXCEPT ![run].at = "done"]
    /\ UNCHANGED cache_before

InitStore ==
    /\ LinterIdle
    /\ LookupIdle
    /\ NoConfigFiles
    /\ config_path = None
    /\ overwrite_config = None
    /\ ignore_git_dir = FALSE
    /\ Constructed
    /\ raised = ""
    /\ robot_files = [f \in RobotFiles |-> RobotFile(TRUE, FALSE, {}, {})]
    /\ sources = <<>>
    /\ worklist = <<>>
    /\ paths = <<>>
    /\ pc = "idle"
    /\ position = 0
    /\ issues_no = 0
    /\ reports = <<>>
    /\ messages = [report \in Range(LOADED_REPORTS) |-> <<>>]
    /\ printed = <<>>
    /\ finalized = <<>>
    /\ status_code = None
    /\ exit_code = None
    /\ scans = {}
    /\ cache_file \in InitialCacheFiles
    /\ cache_before = cache_file
    /\ savers \in [Runs -> {Saver(working_dir, persistent, at, None) :
                               working_dir \in {"/p", "/q"}, persistent \in BOOLEAN,
                               at \in {"start", "off"}}]
    /\ Registered

NextStore ==
    /\ \E run \in Runs :
          \/ MakeReportsLoad(run)
          \/ SaveLoad(run)
          \/ SaveWrite(run)
    /\ UNCHANGED <<configs, raised>>
    /\ UNCHANGED linterVars
    /\ UNCHANGED fsVars
    /\ UNCHANGED managerVars
    /\ UNCHANGED lookupVars
    /\ UNCHANGED pathVars
    /\ UNCHANGED runVars
    /\ UNCHANGED registryVars

SpecStore == InitStore /\ [][NextStore]_vars

\* the entry of a root in a store file; a file that is absent or cannot be
\* decoded has none
Entry(file, root) == IF file.kind = "json" THEN file.dict[root] ELSE "none"

\* the run is the only one that takes part, and is through
RanAlone(run) ==
    /\ savers[run].at = "done"
    /\ \A other \in Runs \ {run} : savers[other].at = "off"

\* C21: the store is overwritten for the root of the run only: after a
\* persistent run the entry of every other root is what it was before the
\* run and the entry of its own root holds its results; a run that is not
\* persistent leaves the store as it was.
C21_OnlyCurrentRootOverwritten ==
    \A run \in Runs :
        RanAlone(run) =>
            IF savers[run].persistent
            THEN /\ \A root \in Roots \ {savers[run].working_dir} :
                        Entry(cache_file, root) = Entry(cache_before, root)
                 /\ Entry(cache_file, savers[run].working_dir) = savers[run].report_results
            ELSE cache_file = cache_before

\* a persistent run with root /p over a store that held entries for all
\* three roots: the entries of /q and /r are the old ones, that of /p is new
C21_Witness ==
    /\ RanAlone("first")
    /\ savers["first"].persistent
    /\ savers["first"].working_dir = "/p"
    /\ \A root \in Roots : Entry(cache_before, root) = "old"
    /\ Entry(cache_file, "/q") = "old"
    /\ Entry(cache_file, "/r") = "old"
    /\ Entry(cache_file, "/p") = "first"

\* a run that is not persistent, over a store with entries
C21_WitnessNotPersistent ==
    /\ RanAlone("second")
    /\ ~savers["second"].persistent
    /\ Entry(cache_before, "/q") = "old"
    /\ cache_file = cache_before

\* two persistent runs with different roots have both saved
BothSaved ==
    /\ \A run \in Runs : savers[run].at = "done" /\ savers[run].persistent
    /\ savers["first"].working_dir # savers["second"].working_dir

\* C30: no update of the store is lost when two persistent runs with
\* different roots save with their load and write steps in any order: the
\* store then holds the new entry of each of the two roots and every
\* entry of another root that it held before.
C30_NoLostUpdate ==
    BothSaved =>
        /\ \A run \in Runs :
              Entry(cache_file, savers[run].working_dir) = savers[run].report_results
        /\ \A root \in Roots \ {savers[run].working_dir : run \in Runs} :
              Entry(cache_file, root) = Entry(cache_before, root)

\* the loop of run has refreshed rules and checkers for a file
AfterRefresh == position > 0 /\ refreshed /\ pc # "aborted"

\* C22: after check_for_disabled_rules for a file, a checker is disabled
\* exactly if none of its rules is enabled; a checker disabled for an
\* earlier file is not disabled for a later file that has one of its rules
\* enabled.
C22_DisabledIffNoRuleEnabled ==
    AfterRefresh =>
        \A checker \in Checkers :
            disabled[checker] <=> (\A r \in CheckerRules(checker) : ~rules[r].enabled)

\* C23: whenever find_closest_config returns a Config, every directory the
\* walk went through, however it ended (configuration found, .git reached,
\* top reached, cached ancestor reached), has the returned Config as its
\* cache entry.
C23_WalkFillsCache ==
    last_lookup.outcome \in {"found", "default", "cached"} =>
        \A d \in Range(last_lookup.seen) : cached_configs[d] = last_lookup.cfg

----------------------------------------------------------------------------
(* The rule registry: RobocopLinter.register_checker called for any        *)
(* sequence of checkers, starting from the empty registry.                 *)

MaxRegistered == 2

\* the annotations a checker class may carry: one or two rule classes
CheckerAnnotations ==
    {<<rule_class>> : rule_class \in RuleClasses} \cup
    {<<first, second>> : first \in RuleClasses, second \in RuleClasses}

RegisterChecker(checker_annotations) ==
    /\ Len(checkers) < MaxRegistered
    /\ LET linter == register_checker([registry |-> registry, instances |-> instances,
                                       checkers |-> checkers],
                                      NoRules, checker_annotations) IN
         /\ registry' = linter.registry
         /\ instances' = linter.instances
         /\ checkers' = linter.checkers
    /\ UNCHANGED <<configs, raised>>
    /\ UNCHANGED linterVars
    /\ UNCHANGED fsVars
    /\ UNCHANGED managerVars
    /\ UNCHANGED lookupVars
    /\ UNCHANGED pathVars
    /\ UNCHANGED runVars
    /\ UNCHANGED storeVars

InitRegistry ==
    /\ LinterIdle
    /\ LookupIdle
    /\ NoConfigFiles
    /\ config_path = None
    /\ overwrite_config = None
    /\ ignore_git_dir = FALSE
    /\ Constructed
    /\ raised = ""
    /\ robot_files = [f \in RobotFiles |-> RobotFile(TRUE, FALSE, {}, {})]
    /\ sources = <<>>
    /\ worklist = <<>>
    /\ paths = <<>>
    /\ pc = "idle"
    /\ position = 0
    /\ issues_no = 0
    /\ reports = <<>>
    /\ messages = [report \in Range(LOADED_REPORTS) |-> <<>>]
    /\ printed = <<>>
    /\ finalized = <<>>
    /\ status_code = None
    /\ exit_code = None
    /\ scans = {}
    /\ StoreIdle
    /\ registry = NoCheckerRegistered.registry
    /\ instances = NoCheckerRegistered.instances
    /\ checkers = NoCheckerRegistered.checkers

NextRegistry == \E checker_annotations \in CheckerAnnotations : RegisterChecker(checker_annotations)

SpecRegistry == InitRegistry /\ [][NextRegistry]_vars

\* the rules of the registered checkers: the instances their checker.rules hold
RegisteredRules == {checkers[c][name] : c \in 1..Len(checkers), name \in RuleNames} \ {0}

\* C24: after any sequence of registrations, for every rule instance of a
\* registered checker the lookup by its rule_id and the lookup by its name
\* both give that instance.
C24_RegistryConsistent ==
    \A rule_instance \in RegisteredRules :
        /\ registry[instances[rule_instance].rule_id] = rule_instance
        /\ registry[instances[rule_instance].name] = rule_instance

\* the run has got past make_reports without an error
ReportsMade == pc \in {"reported", "done"}

\* C25: in a run no error ends, get_report is called on each enabled
\* report exactly once, and only when the loop has taken the last file: no
\* add_message and no printed diagnostic follows it; the exit code is there
\* only after every report was finalized.
C25_FinalizationOrdering ==
    /\ [](/\ ReportsMade => (finalized = reports /\ position = Len(paths))
          /\ finalized # <<>> => position = Len(paths)
          /\ (pc \in {"start", "resolve", "files"}) => (finalized = <<>> /\ exit_code = None)
          /\ exit_code # None => (pc = "done" /\ finalized = reports))
    /\ [][(ReportsMade \/ finalized # <<>>) => UNCHANGED <<messages, printed, finalized, position>>]_vars

\* a run over two files with two reports has ended: both reports got
\* diagnostics of both files before they were finalized, one after the other
C25_Witness ==
    /\ pc = "done"
    /\ exit_code # None
    /\ Len(paths) = 2
    /\ Len(reports) = 2
    /\ finalized = reports
    /\ \A report \in Range(reports) : \A f \in Processed : HandedOf(report, f) # {}

----------------------------------------------------------------------------
(* The file filters of a Config at work: resolve_paths asks path_excluded  *)
(* and path_included of config.file_filters for one source after another.  *)
(* Here a pattern collection is kept as Python keeps it, as a list (a TOML *)
(* array, a command line option) or as the frozenset of the defaults, with *)
(* its items in iteration order.                                           *)

MaxPatterns == 4

PatternList(items) == [extendable |-> TRUE, items |-> items]

PatternFrozenSet(items) == [extendable |-> FALSE, items |-> items]

\* the truth value of a field that is None or a collection
TruthyPatterns(o) == o # None /\ Val(o).items # <<>>

MatchesSome(source, patterns) == \E i \in DOMAIN patterns.items : path_match(source, patterns.items[i])

\* FileFiltersOptions.path_excluded on such fields
path_excluded_listed(filters, source) ==
    \/ TruthyPatterns(filters.exclude) /\ MatchesSome(source, Val(filters.exclude))
    \/ TruthyPatterns(filters.extend_exclude) /\ MatchesSome(source, Val(filters.extend_exclude))

\* FileFiltersOptions.path_included on such fields: include_paths is the
\* object self.include holds, not a copy of it, so extend works on
\* self.include itself; a frozenset has no extend. Yields the outcome and
\* the fields the object holds afterwards.
path_included_listed(filters, source) ==
    LET include_paths == Val(filters.include) IN
    IF TruthyPatterns(filters.extend_include)
    THEN IF ~include_paths.extendable
         THEN [outcome |-> "raise", filters |-> filters]
         ELSE LET extended == [include_paths EXCEPT !.items = @ \o Val(filters.extend_include).items] IN
              [outcome |-> IF MatchesSome(source, extended) THEN "yes" ELSE "no",
               filters |-> [filters EXCEPT !.include = Some(extended)]]
    ELSE [outcome |-> IF MatchesSome(source, include_paths) THEN "yes" ELSE "no",
          filters |-> filters]

\* the file filters a Config may be built with
FilterObjects ==
    {FileFiltersOptions(Some(include), extend_include, Some(exclude), extend_exclude) :
        include \in {PatternFrozenSet(<<"*.robot", "*.resource">>), PatternList(<<"*.robot">>),
                     PatternList(<<"*.txt">>), PatternList(<<>>)},
        extend_include \in {None, Some(PatternList(<<>>)), Some(PatternList(<<"*.txt">>)),
                            Some(PatternList(<<"n.txt", "*.resource">>))},
        exclude \in {PatternFrozenSet(<<".git", "venv">>), PatternList(<<"s">>),
                     PatternList(<<"x.robot">>)},
        extend_exclude \in {None, Some(PatternList(<<>>)), Some(PatternList(<<"y.robot">>))}}

\* the sources resolve_paths comes across
FilteredSources == {X_ROBOT, Y_ROBOT, N_TXT, DirAt("/a")}

\* one pass of the loop of resolve_paths, as far as the file filters go:
\* path_excluded, and for a file that is not excluded path_included
ApplyFileFilters(source) ==
    /\ raised = ""
    /\ Len(Val(configs[default_config].file_filters.include).items) < MaxPatterns
    /\ LET filters == configs[default_config].file_filters
           got == path_included_listed(filters, source) IN
         IF path_excluded_listed(filters, source) \/ source[1] # "file"
         THEN UNCHANGED <<configs, raised>>
         ELSE /\ configs' = [configs EXCEPT ![default_config].file_filters = got.filters]
              /\ raised' = IF got.outcome = "raise" THEN "AttributeError" ELSE raised
    /\ UNCHANGED linterVars
    /\ UNCHANGED fsVars
    /\ UNCHANGED managerVars
    /\ UNCHANGED lookupVars
    /\ UNCHANGED pathVars
    /\ UNCHANGED runVars
    /\ UNCHANGED storeVars
    /\ UNCHANGED registryVars

InitFilters ==
    /\ RunIdle
    /\ LinterIdle
    /\ LookupIdle
    /\ NoConfigFiles
    /\ config_path = None
    /\ overwrite_config = None
    /\ ignore_git_dir = FALSE
    /\ overridden_config = FALSE
    /\ configs \in {<<[DefaultConfig EXCEPT !.file_filters = filters]>> : filters \in FilterObjects}
    /\ default_config = 1
    /\ cached_configs = [d \in Dirs |-> 0]
    /\ raised = ""

NextFilters == \E source \in FilteredSources : ApplyFileFilters(source)

SpecFilters == InitFilters /\ [][NextFilters]_vars

\* C26: no call of path_excluded or path_included changes a field of the
\* Config it is made on: include, extend_include, exclude and
\* extend_exclude are after every call what they were before it.
C26_ConfigImmutable == [][configs' = configs]_vars

\* the rule as it was constructed, but for the severity it has now
AsConstructed(r) == [rules[r] EXCEPT !.enabled = default_enabled[r]]

\* C27: the enabled flag the refresh for a file assigns to a rule is what
\* is_rule_enabled makes of that file's Config, the rule's metadata and the
\* enabled flag the rule was constructed with, whatever files came before.
C27_EnablementIndependentOfEarlierFiles ==
    AfterRefresh =>
        \A r \in RuleKeys :
            rules[r].enabled = is_rule_enabled(AsConstructed(r), configs[config].linter)

\* C28: check_for_disabled_rules applied again under the same Config
\* changes nothing: after one application every rule's enabled flag and
\* every checker's disabled flag are what a further application assigns.
C28_RefreshIdempotent ==
    /\ [](refreshed =>
            /\ RefreshedRules(rules, CurrentLinter) = rules
            /\ RefreshedCheckers(rules, disabled) = disabled)
    /\ [][refreshed => UNCHANGED <<rules, disabled>>]_vars

\* the refresh has switched a rule off that was constructed enabled, left
\* another one on, and marked a checker disabled
C28_Witness ==
    /\ refreshed
    /\ \E r \in RuleKeys : default_enabled[r] /\ ~rules[r].enabled
    /\ \E r \in RuleKeys : rules[r].enabled
    /\ \E c \in Checkers : disabled[c]

\* the number of diagnostics of the files in S a report was handed
RECURSIVE HandedIn(_, _)
HandedIn(name, S) ==
    IF S = {} THEN 0
    ELSE LET f == CHOOSE g \in S : TRUE IN
         Cardinality(HandedOf(name, f)) + HandedIn(name, S \ {f})

\* the files the loop took and neither skipped nor found disabled as a whole
Checked ==
    {f \in Processed : get_model_for_file_type(f) = "model" /\ ~robot_files[f].file_disabled}

\* C29: when the exit code is computed, the issue count is the number of
\* diagnostics every enabled report was handed during the run, all of them
\* diagnostics of files that were neither skipped nor disabled as a whole.
C29_IssueCountConsistent ==
    (pc \in {"reported", "done"}) =>
        \A name \in Range(reports) :
            /\ issues_no = Len(messages[name])
            /\ issues_no = HandedIn(name, Checked)
            /\ issues_no = Len(printed)

\* a run with two reports has ended: x.robot, disabled as a whole, holds
\* two findings and added nothing, y.robot added its two diagnostics
C29_Witness ==
    /\ pc = "done"
    /\ Len(reports) = 2
    /\ Processed = {X_ROBOT, Y_ROBOT}
    /\ robot_files[X_ROBOT].file_disabled
    /\ robot_files[X_ROBOT].findings = PossibleFindings
    /\ issues_no = 2
    /\ \A name \in Range(reports) : Len(messages[name]) = 2

\* a run has ended: y.robot could not be decoded and was skipped, x.robot
\* added its diagnostics
C29_WitnessSkipped ==
    /\ pc = "done"
    /\ Processed = {X_ROBOT, Y_ROBOT}
    /\ get_model_for_file_type(Y_ROBOT) = "DataError"
    /\ robot_files[Y_ROBOT].findings = PossibleFindings
    /\ issues_no = 2
    /\ \A name \in Range(reports) : Len(messages[name]) = 2

====
